---- MODULE Spec2Model ----
(***************************************************************************)
(* State-machine model of the MCTS arena (src/src/arena.rs), the node      *)
(* record (src/src/node.rs), the transposition cache                       *)
(* (src/src/hashtable.rs), the stop predicate (src/src/search.rs) and the   *)
(* UCI front end (src/src/uci.rs) of imm-cee-tee-ess.                       *)
(*                                                                         *)
(* Chess itself is abstracted: a position is the sequence of moves played  *)
(* from the start position, a move is a small integer, and the rules       *)
(* (legal moves, game state, hash, policy) are small fixed functions.      *)
(* Scores are counted in halves (VScale = 2 stands for 1.0), policies in   *)
(* sixths (PolDen = 6 stands for 1.0).                                     *)
(***************************************************************************)
EXTENDS Integers, Sequences, FiniteSets, TLC

\* ---------------------------------------------------------------- bounds
Cap == 8
MaxPly == 5
MaxPlayouts == 13
MaxSearches == 2
MaxLines == 3
MaxNodes == 3
BufCap == 3
MaxBlock == 2
TestNodes == 4
HistLen == 7
Places == 3
MaxEpoch == 1
\* the moves played on a board after it was read from its FEN
FenPlies == 3

\* ------------------------------------------------------------- constants
NONE == 0 - 1
NULL == 0
VScale == 2
PolDen == 6
HashSpace == 16
KeySpace == 4
TableLen == 2
PathCap == 256
HalfMoveLimit == 100
RepetitionLen == 6
NumSquares == 64

Slots == 0 .. (Cap - 1)

\* ------------------------------------------------------- abstract chess
\* HistorizedBoard::make_move: the position after playing m.
make_move(board, m) == Append(board, m)

EndsWith(board, a, b) ==
    Len(board) >= 2 /\ board[Len(board) - 1] = a /\ board[Len(board)] = b

\* Board::legal_moves of the abstract game, as a count: from the third ply
\* on the move 1 played after the move 2 mates the side to move, nothing is
\* legal at MaxPly plies, one move is legal after a move numbered 2 and two
\* moves otherwise.
NumMoves(board) ==
    IF (Len(board) >= 3 /\ EndsWith(board, 2, 1)) \/ Len(board) >= MaxPly THEN 0
    ELSE IF Len(board) > 0 /\ board[Len(board)] = 2 THEN 1 ELSE 2

\* Board::in_check.
in_check(board) == Len(board) >= 3 /\ EndsWith(board, 2, 1)

\* The position is a draw by repetition or by the fifty-move rule: in the
\* abstract game, after two consecutive moves numbered 1 from the fourth ply.
is_draw_by_rule(board) == Len(board) >= 4 /\ EndsWith(board, 1, 1)

\* HistorizedBoard::game_state.
game_state(board) ==
    IF is_draw_by_rule(board) THEN "Draw"
    ELSE IF NumMoves(board) # 0 THEN "Ongoing"
    ELSE IF in_check(board) THEN "Lost" ELSE "Draw"

\* Board::policies: one (move, policy) pair per legal move, in move order.
policies(board) ==
    LET k == NumMoves(board)
    IN  [i \in 1 .. k |->
            [m |-> i, pol |-> IF k = 1 THEN PolDen ELSE IF i = 1 THEN 4 ELSE 2]]

\* The moves Board::legal_moves gives for a position.
LegalMoves(b) == {policies(b)[i].m : i \in 1 .. NumMoves(b)}

RECURSIVE HashFrom(_, _)
HashFrom(board, h) ==
    IF board = << >> THEN h
    ELSE HashFrom(Tail(board), (h * 5 + Head(board) * 3) % HashSpace)

\* HistorizedBoard::hash: the Zobrist hash of the position.
hash(board) == HashFrom(board, 7)

\* The weights files that can be loaded at startup: each gives, for the
\* position whose hash is h, the value Weights[net][h + 1] in halves.
Weights ==
    << << 2, 2, 0, 0, 1, 0, 0, 0, 0, 1, 0, 0, 0, 0, 0, 0 >>,
       << 1, 1, 1, 1, 1, 1, 1, 1, 1, 1, 1, 1, 1, 1, 1, 1 >>,
       << 0, 0, 0, 0, 0, 0, 0, 0, 0, 0, 0, 0, 0, 0, 0, 0 >> >>

\* Board::wdl: the win probability, in halves, that the network with the
\* weights numbered net gives the side to move.
wdl(net, board) == Weights[net][hash(board) + 1]

\* ------------------------------------------------------------ node.rs
DefaultNode ==
    [game_state |-> "Ongoing", parent |-> NONE, first_child |-> NONE,
     num_children |-> 0, m |-> NULL, policy |-> 0, visits |-> 0,
     total_score |-> 0, prev |-> NONE, next |-> NONE]

NewNode(gs, parent, m, policy) ==
    [game_state |-> gs, parent |-> parent, first_child |-> NONE,
     num_children |-> 0, m |-> m, policy |-> policy, visits |-> 0,
     total_score |-> 0, prev |-> NONE, next |-> NONE]

\* Node::overwrite keeps the slot's LRU links and resets everything else.
overwrite(n, gs, parent, m, policy) ==
    [NewNode(gs, parent, m, policy) EXCEPT !.prev = n.prev, !.next = n.next]

zero_out(n) == [DefaultNode EXCEPT !.prev = n.prev, !.next = n.next]

is_terminal(n) == n.game_state # "Ongoing"

should_expand(n) == n.game_state = "Ongoing" /\ n.num_children = 0

has_children(n) == n.num_children > 0 /\ n.first_child # NONE

is_allocated(n) == n.parent # NONE \/ has_children(n)

\* Node::children: the handles first_child .. first_child + num_children - 1.
children(n) ==
    IF n.first_child = NONE THEN << >>
    ELSE [i \in 1 .. n.num_children |-> n.first_child + i - 1]

make_root(n) == [n EXCEPT !.m = NULL, !.policy = PolDen, !.parent = NONE]

\* update_stats with the visit left uncounted.
\* update_stats counting the visit twice.
update_stats_twice(n, u) ==
    [n EXCEPT !.visits = n.visits + 2, !.total_score = n.total_score + u]

update_stats_uncounted(n, u) == [n EXCEPT !.total_score = n.total_score + u]

update_stats(n, u) ==
    [n EXCEPT !.visits = n.visits + 1, !.total_score = n.total_score + u]

\* GameState::evaluate, in halves; NONE stands for Option::None.
evaluate_state(gs) ==
    CASE gs = "Won" -> VScale
      [] gs = "Draw" -> 1
      [] gs = "Lost" -> 0
      [] OTHER -> NONE

\* ----------------------------------------------------------- chess_move.rs
\* enum MoveType, in the order of its discriminants 0 .. 13.
MoveTypes ==
    << "Normal", "QueenPromotion", "RookPromotion", "BishopPromotion",
       "KnightPromotion", "DoublePush", "KingCastle", "QueenCastle", "EnPassant",
       "Capture", "QueenCapturePromotion", "RookCapturePromotion",
       "BishopCapturePromotion", "KnightCapturePromotion" >>

\* move_type as u16
Discriminant(move_type) == (CHOOSE i \in 1 .. Len(MoveTypes) : MoveTypes[i] = move_type) - 1

\* a | b on 16-bit values
RECURSIVE BitOr(_, _)
BitOr(a, b) ==
    IF a = 0 THEN b
    ELSE IF b = 0 THEN a
    ELSE (IF a % 2 = 1 \/ b % 2 = 1 THEN 1 ELSE 0) + 2 * BitOr(a \div 2, b \div 2)

\* Move::new: the 16 bits handed to NonZero::new_unchecked.
Move_new(origin, destination, move_type) ==
    BitOr(BitOr(origin, (destination * 2 ^ 6) % 2 ^ 16),
          (Discriminant(move_type) * 2 ^ 12) % 2 ^ 16)

\* Move::flag; "unreachable" stands for the panic of the last match arm.
Move_flag(m) ==
    LET f == (m \div 2 ^ 12) % 2 ^ 4
    IN  IF f < Len(MoveTypes) THEN MoveTypes[f + 1] ELSE "unreachable"

\* Move::from
Move_from(m) == m % 2 ^ 6

\* Move::to
Move_to(m) == (m \div 2 ^ 6) % 2 ^ 6

Move_is_castle(m) == Move_flag(m) = "KingCastle" \/ Move_flag(m) = "QueenCastle"

Move_is_en_passant(m) == Move_flag(m) = "EnPassant"

\* Move::promotion; "None" stands for Option::None.
Move_promotion(m) ==
    CASE Move_flag(m) \in {"QueenPromotion", "QueenCapturePromotion"} -> "Queen"
      [] Move_flag(m) \in {"RookPromotion", "RookCapturePromotion"} -> "Rook"
      [] Move_flag(m) \in {"BishopPromotion", "BishopCapturePromotion"} -> "Bishop"
      [] Move_flag(m) \in {"KnightPromotion", "KnightCapturePromotion"} -> "Knight"
      [] OTHER -> "None"

\* --------------------------------------------------- historized_board.rs
\* A position of the board seen through what HistorizedBoard reads of it:
\* the pieces stand in one of Places arrangements that quiet moves lead to
\* and from, a capture or pawn move starts a new epoch whose positions are
\* all new, and the Zobrist hash tells the positions apart.
zobrist(epoch, place) == epoch * Places + place

\* HistorizedBoard::from: the board of the FEN, no hash recorded. seen is
\* the set of positions the game went through before the current one.
HistFrom ==
    [epoch |-> 0, place |-> 0, half_moves |-> 0, zobrist_hash |-> zobrist(0, 0),
     hashes |-> << >>, seen |-> {}, state |-> "Ongoing"]

\* HistorizedBoard::hash
hb_hash(hb) == hb.zobrist_hash

\* HistorizedBoard::is_3x_repetition: the last half_moves + 1 recorded
\* hashes, newest first, are compared with the hash of the board.
is_3x_repetition(hb) ==
    IF Len(hb.hashes) < RepetitionLen THEN FALSE
    ELSE \E k \in 1 .. Len(hb.hashes) :
            /\ k <= hb.half_moves + 1
            /\ hb.hashes[Len(hb.hashes) + 1 - k] = hb_hash(hb)

\* HistorizedBoard::game_state of a position in which the side to move has
\* a legal move.
hb_game_state(hb) ==
    IF hb.half_moves >= HalfMoveLimit \/ is_3x_repetition(hb) THEN "Draw"
    ELSE "Ongoing"

\* HistorizedBoard::make_move: a capture or pawn move clears the recorded
\* hashes; Board::make_move moves the pieces, counts or resets the
\* half-move clock and updates the hash; the new hash is recorded.
hb_make_move(hb, irreversible, to) ==
    LET kept == IF irreversible THEN << >> ELSE hb.hashes
        epoch == IF irreversible THEN hb.epoch + 1 ELSE hb.epoch
    IN  [hb EXCEPT !.epoch = epoch, !.place = to,
                   !.half_moves = IF irreversible THEN 0 ELSE hb.half_moves + 1,
                   !.zobrist_hash = zobrist(epoch, to),
                   !.hashes = Append(kept, zobrist(epoch, to)),
                   !.seen = hb.seen \cup {hb.zobrist_hash}]

\* ------------------------------------------------------------ board/fen.rs
\* A string is the sequence of its characters.  A Board is a record of the
\* fields of struct Board (src/src/board.rs); a bitboard is the set of its
\* squares, a Zobrist hash is the set of the keys xor-ed into it an odd
\* number of times, a Piece is its index in "PpNnBbRrQqKk" (the name is the
\* index halved, the colour its parity), and "panic" holds the message of a
\* panic, "" when there was none.

\* STARTING_FEN and the strings of fen_tests::fen.
FenInputs ==
    <<
    \* rnbqkbnr/pppppppp/8/8/8/8/PPPPPPPP/RNBQKBNR w KQkq - 0 1
    << "r", "n", "b", "q", "k", "b", "n", "r", "/", "p", "p", "p", "p", "p",
       "p", "p", "p", "/", "8", "/", "8", "/", "8", "/", "8", "/", "P", "P",
       "P", "P", "P", "P", "P", "P", "/", "R", "N", "B", "Q", "K", "B", "N",
       "R", " ", "w", " ", "K", "Q", "k", "q", " ", "-", " ", "0", " ", "1" >>,
    \* rnbqkbnr/pppppppp/8/8/4P3/8/PPPP1PPP/RNBQKBNR b KQ e3 0 1
    << "r", "n", "b", "q", "k", "b", "n", "r", "/", "p", "p", "p", "p", "p",
       "p", "p", "p", "/", "8", "/", "8", "/", "4", "P", "3", "/", "8", "/",
       "P", "P", "P", "P", "1", "P", "P", "P", "/", "R", "N", "B", "Q", "K",
       "B", "N", "R", " ", "b", " ", "K", "Q", " ", "e", "3", " ", "0", " ",
       "1" >>,
    \* rnbqkbnr/pp1ppppp/8/2p5/4P3/8/PPPP1PPP/RNBQKBNR w Kq c6 0 1
    << "r", "n", "b", "q", "k", "b", "n", "r", "/", "p", "p", "1", "p", "p",
       "p", "p", "p", "/", "8", "/", "2", "p", "5", "/", "4", "P", "3", "/",
       "8", "/", "P", "P", "P", "P", "1", "P", "P", "P", "/", "R", "N", "B",
       "Q", "K", "B", "N", "R", " ", "w", " ", "K", "q", " ", "c", "6", " ",
       "0", " ", "1" >>,
    \* rnbqkbnr/pp1ppppp/8/2p5/4P3/5N2/PPPP1PPP/RNBQKB1R b - - 1 1
    << "r", "n", "b", "q", "k", "b", "n", "r", "/", "p", "p", "1", "p", "p",
       "p", "p", "p", "/", "8", "/", "2", "p", "5", "/", "4", "P", "3", "/",
       "5", "N", "2", "/", "P", "P", "P", "P", "1", "P", "P", "P", "/", "R",
       "N", "B", "Q", "K", "B", "1", "R", " ", "b", " ", "-", " ", "-", " ",
       "1", " ", "1" >>
    >>

\* The digits '0' .. '9'; the digit d is Digits[d + 1].
Digits == << "0", "1", "2", "3", "4", "5", "6", "7", "8", "9" >>

\* chars().position(|x| x == c), counted from 0; NONE when c is not there.
CharIndex(chars, c) ==
    IF \E i \in 1 .. Len(chars) : chars[i] = c
    THEN (CHOOSE i \in 1 .. Len(chars) :
              chars[i] = c /\ \A j \in 1 .. (i - 1) : chars[j] # c) - 1
    ELSE NONE

\* str::split(['/', ' ']): the entries between the delimiters.
Split(s) ==
    LET at == {i \in 1 .. Len(s) : s[i] \in {"/", " "}}
        delimiter(j) == CHOOSE i \in at : Cardinality({d \in at : d < i}) = j - 1
    IN  [j \in 1 .. (Cardinality(at) + 1) |->
            SubSeq(s,
                   IF j = 1 THEN 1 ELSE delimiter(j - 1) + 1,
                   IF j = Cardinality(at) + 1 THEN Len(s) ELSE delimiter(j) - 1)]

\* Board::generate_hash: the keys of the pieces, of the en passant square,
\* of the castling rights and of the side to move.
generate_hash(b) ==
    {<< "piece", b.mailbox[sq], sq >> :
         sq \in {q \in 0 .. (NumSquares - 1) : b.mailbox[q] # NONE}}
    \cup (IF b.en_passant_square # NONE
          THEN {<< "en_passant", b.en_passant_square >>} ELSE {})
    \cup {<< "castling", b.castling_rights >>}
    \cup (IF b.stm = "Black" THEN {<< "turn" >>} ELSE {})

\* Board::place_piece
place_piece(b, piece, sq) ==
    [b EXCEPT !.mailbox[sq] = piece,
              !.bitboards[piece \div 2] = (@ \ {sq}) \cup ({sq} \ @),
              !.color_occupancies[piece % 2] = (@ \ {sq}) \cup ({sq} \ @),
              !.zobrist_hash = (@ \ {<< "piece", piece, sq >>})
                               \cup ({<< "piece", piece, sq >>} \ @)]

\* Board::remove_piece
remove_piece(b, sq) ==
    LET piece == b.mailbox[sq]
    IN  IF piece = NONE THEN b
        ELSE [b EXCEPT !.mailbox[sq] = NONE,
                       !.bitboards[piece \div 2] = (@ \ {sq}) \cup ({sq} \ @),
                       !.color_occupancies[piece % 2] = (@ \ {sq}) \cup ({sq} \ @),
                       !.zobrist_hash = (@ \ {<< "piece", piece, sq >>})
                                        \cup ({<< "piece", piece, sq >>} \ @)]

\* The loop of from_fen over the characters of one rank entry: a digit
\* skips that many files, a letter places its piece.
RECURSIVE ParsePieces(_, _, _, _)
ParsePieces(b, entry, row, idx) ==
    IF b.panic # "" \/ entry = << >> THEN b
    ELSE LET c == Head(entry)
             square == row * 8 + idx
             pieces == << "P", "p", "N", "n", "B", "b", "R", "r", "Q", "q", "K", "k" >>
             i == CharIndex(pieces, c)
         IN  IF CharIndex(Digits, c) # NONE
             THEN ParsePieces(b, Tail(entry), row, idx + CharIndex(Digits, c))
             ELSE IF i = NONE THEN [b EXCEPT !.panic = "Unrecognized char"]
             ELSE IF square >= NumSquares
                  THEN [b EXCEPT !.panic = "index out of bounds"]
             ELSE ParsePieces(place_piece(b, i, square), Tail(entry), row, idx + 1)

\* parse_castling: the rights of the letters, or-ed.
RECURSIVE parse_castling(_)
parse_castling(buf) ==
    IF buf = << >> THEN 0
    ELSE BitOr(parse_castling(SubSeq(buf, 1, Len(buf) - 1)),
               CASE buf[Len(buf)] = "K" -> 1
                 [] buf[Len(buf)] = "Q" -> 2
                 [] buf[Len(buf)] = "k" -> 4
                 [] buf[Len(buf)] = "q" -> 8
                 [] OTHER -> 0)

\* find_en_passant_square with the rank left out of the square
find_en_passant_square_file_only(vec) ==
    IF vec = << >> THEN [panic |-> TRUE, idx |-> NONE]
    ELSE IF vec[1] = "-" THEN [panic |-> FALSE, idx |-> NONE]
    ELSE LET column == CharIndex(<< "a", "b", "c", "d", "e", "f", "g", "h", "i", "j" >>,
                                 vec[1])
         IN  IF column = NONE \/ Len(vec) < 2 THEN [panic |-> TRUE, idx |-> NONE]
             ELSE [panic |-> FALSE, idx |-> column]

\* find_en_passant_square: None for "-", else the square of the file letter
\* (a digit in base 20, less 10) and the rank digit; idx is NONE for None.
find_en_passant_square(vec) ==
    IF vec = << >> THEN [panic |-> TRUE, idx |-> NONE]
    ELSE IF vec[1] = "-" THEN [panic |-> FALSE, idx |-> NONE]
    ELSE LET column == CharIndex(<< "a", "b", "c", "d", "e", "f", "g", "h", "i", "j" >>,
                                 vec[1])
             digit == IF Len(vec) < 2 THEN NONE ELSE CharIndex(Digits, vec[2])
         IN  IF column = NONE \/ digit = NONE \/ digit = 0
             THEN [panic |-> TRUE, idx |-> NONE]
             ELSE [panic |-> FALSE, idx |-> (digit - 1) * 8 + column]

\* str::parse::<u8>: the number of the decimal digits; NONE stands for Err.
RECURSIVE ParseU8(_)
ParseU8(s) ==
    IF s = << >> THEN NONE
    ELSE LET d == CharIndex(Digits, s[Len(s)])
             front == SubSeq(s, 1, Len(s) - 1)
             hi == IF front = << >> THEN 0 ELSE ParseU8(front)
         IN  IF d = NONE \/ hi = NONE \/ 10 * hi + d >= 2 ^ 8 THEN NONE
             ELSE 10 * hi + d

\* Board::from_fen
from_fen(fen_string) ==
    LET entries == Split(fen_string)
        empty == [bitboards |-> [name \in 0 .. 5 |-> {}],
                  color_occupancies |-> [color \in 0 .. 1 |-> {}],
                  mailbox |-> [sq \in 0 .. (NumSquares - 1) |-> NONE],
                  castling_rights |-> 0, stm |-> "White",
                  en_passant_square |-> NONE, half_moves |-> 0,
                  zobrist_hash |-> {}, panic |-> ""]
        rank(b, k) == IF b.panic # "" THEN b
                      ELSE IF k > Len(entries) THEN [b EXCEPT !.panic = "unwrap: no entry"]
                      ELSE ParsePieces(b, entries[k], 8 - k, 0)
        placed == rank(rank(rank(rank(rank(rank(rank(rank(empty, 1), 2), 3), 4), 5),
                                 6), 7), 8)
        turned ==
            IF placed.panic # "" THEN placed
            ELSE IF Len(entries) < 9 \/ entries[9] = << >>
                 THEN [placed EXCEPT !.panic = "unwrap: no side to move"]
            ELSE IF Head(entries[9]) = "w" THEN [placed EXCEPT !.stm = "White"]
            ELSE IF Head(entries[9]) = "b" THEN [placed EXCEPT !.stm = "Black"]
            ELSE [placed EXCEPT !.panic = "Invalid turn"]
        hashed == [turned EXCEPT !.zobrist_hash = generate_hash(turned)]
        castled == [hashed EXCEPT !.castling_rights = parse_castling(entries[10])]
        en_passant_idx == find_en_passant_square(entries[11])
        passed == [castled EXCEPT
                      !.en_passant_square =
                          IF en_passant_idx.idx # NONE THEN en_passant_idx.idx ELSE @]
        rehashed == [passed EXCEPT !.zobrist_hash = generate_hash(passed)]
        half_moves == IF Len(entries) < 12 THEN NONE ELSE ParseU8(entries[12])
        clocked == IF half_moves = NONE THEN rehashed
                   ELSE [rehashed EXCEPT !.half_moves = half_moves]
    IN  IF turned.panic # "" THEN turned
        ELSE IF Len(entries) < 10 THEN hashed
        ELSE IF Len(entries) < 11 THEN castled
        ELSE IF en_passant_idx.panic
             THEN [castled EXCEPT !.panic = "find_en_passant_square"]
        ELSE IF Len(entries) > 13
             THEN [clocked EXCEPT !.panic = "assert_eq: entries left over"]
        ELSE clocked

\* u8::to_string and i32::to_string of a number that is not negative
RECURSIVE to_string(_)
to_string(n) ==
    IF n < 10 THEN << Digits[n + 1] >>
    ELSE to_string(n \div 10) \o << Digits[(n % 10) + 1] >>

\* The loop of to_fen over the files 0 .. 7 of one rank: the letter of
\* each piece (Piece::char) and the count of the empty squares before it.
RECURSIVE PiecesToFen(_, _, _, _)
PiecesToFen(b, r, f, gap) ==
    LET counted == IF gap > 0 THEN to_string(gap) ELSE << >>
        char == << "P", "p", "N", "n", "B", "b", "R", "r", "Q", "q", "K", "k" >>
    IN  IF f = 8 THEN counted
        ELSE IF b.mailbox[r * 8 + f] = NONE THEN PiecesToFen(b, r, f + 1, gap + 1)
        ELSE counted \o << char[b.mailbox[r * 8 + f] + 1] >>
             \o PiecesToFen(b, r, f + 1, 0)

\* Board::to_fen
to_fen(b) ==
    LET can_castle(c) == (b.castling_rights \div c) % 2 # 0
        SQUARE_NAMES(sq) ==
            << << "a", "b", "c", "d", "e", "f", "g", "h" >>[(sq % 8) + 1],
               Digits[(sq \div 8) + 2] >>
        rank(r) == PiecesToFen(b, r, 0, 0) \o (IF r # 0 THEN << "/" >> ELSE << >>)
    IN  rank(7) \o rank(6) \o rank(5) \o rank(4)
        \o rank(3) \o rank(2) \o rank(1) \o rank(0)
        \o << " " >> \o (IF b.stm = "White" THEN << "w" >> ELSE << "b" >>)
        \o << " " >>
        \o (IF b.castling_rights = 0 THEN << "-" >>
            ELSE (IF can_castle(1) THEN << "K" >> ELSE << >>)
                 \o (IF can_castle(2) THEN << "Q" >> ELSE << >>)
                 \o (IF can_castle(4) THEN << "k" >> ELSE << >>)
                 \o (IF can_castle(8) THEN << "q" >> ELSE << >>))
        \o << " " >>
        \o (IF b.en_passant_square # NONE THEN SQUARE_NAMES(b.en_passant_square)
            ELSE << "-" >>)
        \o << " " >> \o to_string(b.half_moves)
        \o << " ", "1" >>

\* Board::make_move
Board_make_move(b, m) ==
    LET from == Move_from(m)
        to == Move_to(m)
        color == IF b.stm = "White" THEN 0 ELSE 1
        piece_moving == b.mailbox[from]
        capture == IF Move_is_en_passant(m) THEN 1 - color ELSE b.mailbox[to]
        promoted == CASE Move_promotion(m) = "Knight" -> 2 + color
                      [] Move_promotion(m) = "Bishop" -> 4 + color
                      [] Move_promotion(m) = "Rook" -> 6 + color
                      [] OTHER -> 8 + color
        rook_to == CASE to = 6 -> 5 [] to = 2 -> 3 [] to = 62 -> 61 [] OTHER -> 59
        rook_from == CASE to = 6 -> 7 [] to = 2 -> 0 [] to = 62 -> 63 [] OTHER -> 56
        CASTLING_RIGHTS(sq) ==
            CASE sq = 0 -> 13 [] sq = 4 -> 12 [] sq = 7 -> 14
              [] sq = 56 -> 7 [] sq = 60 -> 3 [] sq = 63 -> 11 [] OTHER -> 15
        And(x, y) == LET bit(v) == IF (x \div v) % 2 = 1 /\ (y \div v) % 2 = 1
                                   THEN v ELSE 0
                     IN  bit(1) + bit(2) + bit(4) + bit(8)
        Xor(h, key) == (h \ {key}) \cup ({key} \ h)
        taken == remove_piece(b, to)
        arrived == IF Move_promotion(m) = "None"
                   THEN place_piece(taken, piece_moving, to) ELSE taken
        left == remove_piece(arrived, from)
        moved ==
            IF Move_is_castle(m)
            THEN IF to \in {2, 6, 58, 62} /\ (to - from = 2 \/ from - to = 2)
                 THEN remove_piece(place_piece(left, 6 + color, rook_to), rook_from)
                 ELSE [left EXCEPT !.panic = "Invalid castle"]
            ELSE IF Move_promotion(m) # "None" THEN place_piece(left, promoted, to)
            ELSE IF Move_is_en_passant(m)
                 THEN remove_piece(left, IF color = 0 THEN to - 8 ELSE to + 8)
            ELSE left
        square == IF Move_flag(m) = "DoublePush"
                  THEN (IF color = 0 THEN to - 8 ELSE to + 8) ELSE NONE
        xor_out == IF moved.en_passant_square # NONE
               THEN Xor(moved.zobrist_hash, << "en_passant", moved.en_passant_square >>)
               ELSE moved.zobrist_hash
        xor_in == IF square # NONE THEN Xor(xor_out, << "en_passant", square >>) ELSE xor_out
        rights == And(b.castling_rights, And(CASTLING_RIGHTS(from), CASTLING_RIGHTS(to)))
    IN  [moved EXCEPT
            !.en_passant_square = square,
            !.half_moves = IF capture = NONE /\ piece_moving \div 2 # 0
                           THEN (@ + 1) % 2 ^ 8 ELSE 0,
            !.castling_rights = rights,
            !.stm = IF b.stm = "White" THEN "Black" ELSE "White",
            !.zobrist_hash = Xor(Xor(Xor(xor_in, << "castling", b.castling_rights >>),
                                     << "castling", rights >>),
                                 << "turn" >>)]

\* The moves that are played: the piece that moves and its Move.
FenMoves ==
    {[piece |-> 0, m |-> Move_new(12, 28, "DoublePush")],
     [piece |-> 0, m |-> Move_new(28, 36, "Normal")],
     [piece |-> 0, m |-> Move_new(28, 35, "Capture")],
     [piece |-> 0, m |-> Move_new(36, 43, "EnPassant")],
     [piece |-> 2, m |-> Move_new(6, 21, "Normal")],
     [piece |-> 6, m |-> Move_new(7, 6, "Normal")],
     [piece |-> 10, m |-> Move_new(4, 12, "Normal")],
     [piece |-> 1, m |-> Move_new(50, 34, "DoublePush")],
     [piece |-> 1, m |-> Move_new(51, 35, "DoublePush")],
     [piece |-> 3, m |-> Move_new(62, 45, "Normal")],
     [piece |-> 7, m |-> Move_new(63, 62, "Normal")],
     [piece |-> 0, m |-> Move_new(11, 27, "DoublePush")],
     [piece |-> 2, m |-> Move_new(1, 18, "Normal")],
     [piece |-> 1, m |-> Move_new(52, 36, "DoublePush")],
     [piece |-> 1, m |-> Move_new(36, 27, "Capture")],
     [piece |-> 3, m |-> Move_new(57, 42, "Normal")],
     [piece |-> 11, m |-> Move_new(60, 52, "Normal")]}

\* ---------------------------------------------------------- hashtable.rs
index(h, table_capacity) == (h * table_capacity) \div HashSpace

EmptyTable == [i \in 0 .. (TableLen - 1) |-> [key |-> 0, val |-> 0]]

probe(table, h) ==
    LET entry == table[index(h, TableLen)]
    IN  IF entry.key = h % KeySpace THEN entry.val ELSE NONE

\* An insert that leaves an occupied slot as it is.
insert_if_vacant(table, h, v) ==
    IF table[index(h, TableLen)] = EmptyTable[index(h, TableLen)]
    THEN [table EXCEPT ![index(h, TableLen)] = [key |-> h % KeySpace, val |-> v]]
    ELSE table

\* HashTable::insert
insert_entry(table, h, v) ==
    [table EXCEPT ![index(h, TableLen)] = [key |-> h % KeySpace, val |-> v]]

\* -------------------------------------------------------- node_buffer.rs
\* A NodeBuffer B is [nodes, len, half]; its slots are 0 .. capacity - 1.
Halves == {0, 1}

BlockLens == 0 .. MaxBlock

\* Option<NodeIndex>::None, in the shape of a NodeIndex.
NoIndex == [half |-> NONE, idx |-> NONE]

\* Node::clear resets every field of node.rs's Node.
clear(n) ==
    [n EXCEPT !.game_state = "Ongoing", !.m = NULL, !.policy = 0, !.visits = 0,
              !.total_score = 0, !.first_child = NoIndex, !.num_children = 0]

\* Node::default in a buffer: no child handle.
BufferNode == [DefaultNode EXCEPT !.first_child = NoIndex]

\* Node::expand with a handle into one of the halves.
node_expand(n, first_child, num_children) ==
    [n EXCEPT !.first_child = first_child, !.num_children = num_children]

\* Node::remove_children
node_remove_children(n) == [n EXCEPT !.num_children = 0, !.first_child = NoIndex]

\* NodeBuffer::new
NewBuffer(cap, half) ==
    [nodes |-> [i \in 0 .. (cap - 1) |-> BufferNode], len |-> 0, half |-> half]

capacity(B) == Cardinality(DOMAIN B.nodes)

remaining(B) == capacity(B) - B.len

\* NodeBuffer::reset
buffer_reset(B) == [B EXCEPT !.len = 0]

\* get_contiguous without the clearing of the slots it hands out.
get_contiguous_uncleared(B, required_length) ==
    IF B.len + required_length > capacity(B) THEN [buf |-> B, res |-> NoIndex]
    ELSE [buf |-> [B EXCEPT !.len = B.len + required_length],
          res |-> [half |-> B.half, idx |-> B.len]]

\* NodeBuffer::get_contiguous; the result is the buffer left and the
\* Option<NodeIndex> returned.
get_contiguous(B, required_length) ==
    IF B.len + required_length > capacity(B) THEN [buf |-> B, res |-> NoIndex]
    ELSE [buf |-> [B EXCEPT !.len = B.len + required_length,
                            !.nodes = [i \in DOMAIN B.nodes |->
                                          IF i >= B.len /\ i < B.len + required_length
                                          THEN clear(B.nodes[i])
                                          ELSE B.nodes[i]]],
          res |-> [half |-> B.half, idx |-> B.len]]

\* clear_references that drops the children of every node that has any.
clear_references_all(B, half) ==
    [B EXCEPT !.nodes = [i \in DOMAIN B.nodes |->
                            IF B.nodes[i].first_child # NoIndex
                            THEN node_remove_children(B.nodes[i])
                            ELSE B.nodes[i]]]

\* NodeBuffer::clear_references
clear_references(B, half) ==
    [B EXCEPT !.nodes = [i \in DOMAIN B.nodes |->
                            IF /\ B.nodes[i].first_child # NoIndex
                               /\ B.nodes[i].first_child.half = half
                            THEN node_remove_children(B.nodes[i])
                            ELSE B.nodes[i]]]

\* -------------------------------------------------------------- arena.rs
\* The operators below thread an arena value A through the statements of a
\* method: nl is node_list, head/tail the LRU ends, root the root handle,
\* path the descent path of the running playout, res a method's result and
\* err the panic that stopped the method ("" while none has happened).
Fail(A, why) == IF A.err = "" THEN [A EXCEPT !.err = why] ELSE A

create_linked_list(A) ==
    [A EXCEPT !.nl = [i \in Slots |->
                        [A.nl[i] EXCEPT !.next = IF i = 0 THEN NONE ELSE i - 1,
                                        !.prev = IF i = Cap - 1 THEN NONE ELSE i + 1]],
              !.tail = 0,
              !.head = Cap - 1]

remove_arbitrary_node(A, idx) ==
    IF A.err # "" THEN A
    ELSE
    LET prev == A.nl[idx].prev
        next == A.nl[idx].next
        A1 == IF next # NONE THEN [A EXCEPT !.nl[next].prev = prev]
              ELSE IF prev = NONE THEN Fail(A, "expect: no previous node for the new tail")
              ELSE [A EXCEPT !.tail = prev]
        A2 == IF A1.err # "" THEN A1
              ELSE IF prev # NONE THEN [A1 EXCEPT !.nl[prev].next = next]
              ELSE IF next = NONE THEN Fail(A1, "expect: no next node for the new head")
              ELSE [A1 EXCEPT !.head = next]
    IN  IF A2.err # "" THEN A2
        ELSE [A2 EXCEPT !.nl[idx].prev = NONE, !.nl[idx].next = NONE]

\* insert_at_head that leaves the old head's prev link as it was.
insert_at_head_one_way(A, idx) ==
    IF A.err # "" THEN A
    ELSE [A EXCEPT !.nl = [A.nl EXCEPT ![idx].next = A.head, ![idx].prev = NONE],
                   !.head = idx]

insert_at_head(A, idx) ==
    IF A.err # "" THEN A
    ELSE
    LET old_head == A.head
        nl1 == [A.nl EXCEPT ![idx].next = old_head]
        nl2 == [nl1 EXCEPT ![old_head].prev = idx]
        nl3 == [nl2 EXCEPT ![idx].prev = NONE]
    IN  [A EXCEPT !.nl = nl3, !.head = idx]

move_to_front(A, idx) == insert_at_head(remove_arbitrary_node(A, idx), idx)

\* Arena::remove_children is recursive; the recursion is unrolled on an
\* explicit stack of frames (ptr, children still to visit).  A recursion
\* deeper than the fuel is the stack overflow of a cyclic child relation.
RECURSIVE RemoveChildrenLoop(_, _, _)
RemoveChildrenLoop(A, stack, fuel) ==
    IF stack = << >> THEN A
    ELSE IF fuel = 0 THEN Fail(A, "stack overflow in remove_children")
    ELSE
    LET top == stack[Len(stack)]
        rest == SubSeq(stack, 1, Len(stack) - 1)
    IN  IF top.kids # << >>
        THEN LET child == Head(top.kids)
             IN  RemoveChildrenLoop(A,
                     rest \o << [ptr |-> top.ptr, kids |-> Tail(top.kids)],
                                [ptr |-> child, kids |-> children(A.nl[child])] >>,
                     fuel - 1)
        ELSE LET nl1 == [A.nl EXCEPT ![top.ptr].num_children = 0,
                                     ![top.ptr].first_child = NONE]
                 nl2 == IF rest = << >> THEN nl1
                        ELSE [nl1 EXCEPT ![top.ptr].parent = NONE]
             IN  RemoveChildrenLoop([A EXCEPT !.nl = nl2], rest, fuel - 1)

remove_children(A, ptr) ==
    IF A.err # "" THEN A
    ELSE RemoveChildrenLoop(A, << [ptr |-> ptr, kids |-> children(A.nl[ptr])] >>,
                            4 * Cap * Cap)

RECURSIVE ChunkWalk(_, _, _)
ChunkWalk(A, required_size, tail) ==
    IF tail = A.root THEN [A EXCEPT !.res = NONE]
    ELSE
    LET n == A.nl[tail]
    IN  IF /\ ~has_children(n)
           /\ tail + required_size <= Cap
           /\ \A i \in 0 .. (required_size - 1) : A.nl[tail + i].parent = NONE
        THEN IF \E i \in 0 .. (required_size - 1) : has_children(A.nl[tail + i])
             THEN Fail(A, "assert: free chunk slot has children")
             ELSE [A EXCEPT !.res = tail]
        ELSE IF n.num_children >= required_size
        THEN IF n.first_child = NONE
             THEN Fail(A, "unwrap: first_child of the robbed node")
             ELSE [move_to_front(remove_children(A, tail), tail)
                       EXCEPT !.res = n.first_child]
        ELSE IF n.prev = NONE
        THEN Fail(A, "unwrap: walked past the LRU head")
        ELSE ChunkWalk(A, required_size, n.prev)

\* Arena::get_contiguous_chunk; res = NONE stands for Option::None.
get_contiguous_chunk(A, required_size) ==
    IF A.err # "" THEN A
    ELSE IF required_size <= 0 THEN Fail(A, "assert: required_size > 0")
    ELSE ChunkWalk(A, required_size, A.tail)

unallocate_node(A, ptr) ==
    IF A.err # "" THEN A
    ELSE LET parent == A.nl[ptr].parent
             A1 == IF parent # NONE THEN remove_children(A, parent) ELSE A
         IN  remove_children(A1, ptr)

remove_lru_node(A) ==
    IF A.err # "" THEN A
    ELSE
    LET tail == A.tail
        prev == A.nl[tail].prev
    IN  IF tail = A.root THEN Fail(A, "assert: LRU tail is the root")
        ELSE IF prev = NONE THEN Fail(A, "expect: What")
        ELSE LET A1 == [A EXCEPT !.nl[prev].next = NONE, !.tail = prev]
                 parent == A1.nl[tail].parent
                 A2 == IF parent # NONE THEN remove_children(A1, parent) ELSE A1
             IN  IF A2.err # "" THEN A2 ELSE [A2 EXCEPT !.res = tail]

\* Arena::insert; the new slot's handle is left in res.
insert(A, board, parent, m, policy) ==
    LET A1 == remove_lru_node(A)
    IN  IF A1.err # "" THEN A1
        ELSE LET idx == A1.res
                 A2 == [A1 EXCEPT !.nl[idx] = NewNode(game_state(board), parent, m, policy)]
             IN  [insert_at_head(A2, idx) EXCEPT !.res = idx]

find_next(nl, after, finding_allocated) ==
    LET hits == {i \in Slots : i >= after /\ (is_allocated(nl[i]) <=> finding_allocated)}
    IN  IF hits = {} THEN NONE ELSE CHOOSE i \in hits : \A j \in hits : i <= j

RECURSIVE AlignLoop(_, _, _)
\* The loop of left_align_arena without the re-parenting of the moved
\* node's children.
AlignLoop_parents_stale(A, next_free, next_allocated) ==
    IF A.err # "" \/ ~(next_free < next_allocated) THEN A
    ELSE
    LET nl1 == [A.nl EXCEPT ![next_free] = A.nl[next_allocated]]
        parent == nl1[next_free].parent
        nl2 == IF parent # NONE /\ nl1[parent].first_child = next_allocated
               THEN [nl1 EXCEPT ![parent].first_child = next_free]
               ELSE nl1
        root1 == IF A.root = next_allocated THEN next_free ELSE A.root
        path1 == [i \in 1 .. Len(A.path) |->
                    IF A.path[i].ptr = next_allocated
                    THEN [A.path[i] EXCEPT !.ptr = next_free]
                    ELSE A.path[i]]
        kids == children(nl2[next_free])
        nl3 == nl2
        nl4 == [nl3 EXCEPT ![next_allocated] = zero_out(nl3[next_allocated])]
        nf == find_next(nl4, next_free + 1, FALSE)
        na == find_next(nl4, next_allocated + 1, TRUE)
        A1 == [A EXCEPT !.nl = nl4, !.root = root1, !.path = path1]
    IN  IF \E i \in 1 .. Len(A.path) : A.path[i].ptr = next_free
        THEN Fail(A, "assert: a path entry sits on a free slot")
        ELSE IF nf = NONE \/ na = NONE THEN A1
        ELSE AlignLoop(A1, nf, na)

AlignLoop(A, next_free, next_allocated) ==
    IF A.err # "" \/ ~(next_free < next_allocated) THEN A
    ELSE
    LET nl1 == [A.nl EXCEPT ![next_free] = A.nl[next_allocated]]
        parent == nl1[next_free].parent
        nl2 == IF parent # NONE /\ nl1[parent].first_child = next_allocated
               THEN [nl1 EXCEPT ![parent].first_child = next_free]
               ELSE nl1
        root1 == IF A.root = next_allocated THEN next_free ELSE A.root
        path1 == [i \in 1 .. Len(A.path) |->
                    IF A.path[i].ptr = next_allocated
                    THEN [A.path[i] EXCEPT !.ptr = next_free]
                    ELSE A.path[i]]
        kids == children(nl2[next_free])
        nl3 == [s \in Slots |->
                    IF \E k \in 1 .. Len(kids) : kids[k] = s
                    THEN [nl2[s] EXCEPT !.parent = next_free]
                    ELSE nl2[s]]
        nl4 == [nl3 EXCEPT ![next_allocated] = zero_out(nl3[next_allocated])]
        nf == find_next(nl4, next_free + 1, FALSE)
        na == find_next(nl4, next_allocated + 1, TRUE)
        A1 == [A EXCEPT !.nl = nl4, !.root = root1, !.path = path1]
    IN  IF \E i \in 1 .. Len(A.path) : A.path[i].ptr = next_free
        THEN Fail(A, "assert: a path entry sits on a free slot")
        ELSE IF nf = NONE \/ na = NONE THEN A1
        ELSE AlignLoop(A1, nf, na)

RECURSIVE FrontLoop(_, _)
FrontLoop(A, ptr) ==
    IF A.err # "" \/ ptr >= Cap THEN A
    ELSE IF is_allocated(A.nl[ptr]) THEN FrontLoop(move_to_front(A, ptr), ptr + 1)
    ELSE A

left_align_arena(A) ==
    IF A.err # "" THEN A
    ELSE
    LET next_free == find_next(A.nl, 0, FALSE)
        next_allocated == find_next(A.nl, next_free, TRUE)
    IN  IF next_free = NONE THEN Fail(A, "unwrap: left_align_arena found no free slot")
        ELSE IF next_allocated = NONE
        THEN Fail(A, "unwrap: left_align_arena found no allocated slot")
        ELSE FrontLoop(create_linked_list(AlignLoop(A, next_free, next_allocated)), 0)

RECURSIVE UnallocLoop(_, _, _)
UnallocLoop(A, tail, count) ==
    IF A.err # "" \/ count = 0 THEN A
    ELSE LET A1 == unallocate_node(A, tail)
         IN  IF A1.err # "" THEN A1
             ELSE IF A1.nl[tail].prev = NONE THEN Fail(A1, "unwrap: prev of the tail")
             ELSE UnallocLoop(A1, A1.nl[tail].prev, count - 1)

RECURSIVE FillChildren(_, _, _, _, _)
FillChildren(A, ptr, board, start, i) ==
    IF A.err # "" \/ i > NumMoves(board) THEN A
    ELSE LET pm == policies(board)[i]
             slot == start + i - 1
             A1 == [A EXCEPT !.nl[slot] =
                        overwrite(A.nl[slot], game_state(make_move(board, pm.m)),
                                  ptr, pm.m, pm.pol)]
         IN  FillChildren(move_to_front(A1, slot), ptr, board, start, i + 1)

\* Arena::expand lines 274-282, on the result A1 of the first
\* get_contiguous_chunk: the fallback when it found no chunk.
ExpandRetry(B3) ==
    IF B3.err = "" /\ B3.res = NONE
    THEN Fail(B3, "unwrap: no contiguous chunk after left_align_arena")
    ELSE [B3 EXCEPT !.aligned = TRUE]

ExpandChunk(A1, len) ==
    IF A1.err # "" \/ A1.res # NONE THEN A1
    ELSE ExpandRetry(get_contiguous_chunk(
             left_align_arena(UnallocLoop(A1, A1.tail, Cap \div 10)), len))

\* Arena::expand lines 283-290, on the arena A2 whose res is the chunk.
ExpandInto(A2, ptr, board) ==
    IF A2.err # "" THEN A2
    ELSE FillChildren([A2 EXCEPT !.nl[ptr].first_child = A2.res,
                                 !.nl[ptr].num_children = NumMoves(board)],
                      ptr, board, A2.res, 1)

\* Arena::expand, called with the handle ptr held by the playout.
expand(A, ptr, board) ==
    IF A.err # "" THEN A
    ELSE IF has_children(A.nl[ptr]) \/ is_terminal(A.nl[ptr])
    THEN Fail(A, "assert: expand of a node with children or a terminal node")
    ELSE ExpandInto(ExpandChunk(get_contiguous_chunk(A, NumMoves(board)),
                                NumMoves(board)),
                    ptr, board)

Sign(x) == IF x > 0 THEN 1 ELSE IF x < 0 THEN 0 - 1 ELSE 0

\* Sign of a/b - c/d for a, c >= 0 and b, d > 0, by Euclid's algorithm (no
\* product is formed, so the operands may be as large as an integer).
RECURSIVE FracCmp(_, _, _, _)
FracCmp(a, b, c, d) ==
    IF a \div b # c \div d THEN Sign((a \div b) - (c \div d))
    ELSE IF a % b = 0 /\ c % d = 0 THEN 0
    ELSE IF a % b = 0 THEN 0 - 1
    ELSE IF c % d = 0 THEN 1
    ELSE FracCmp(d, c % d, b, a % b)

\* Sign of x/xd + (y/yd) * sqrt(m) for integers x, y, m >= 0 and xd, yd > 0.
SignSurd(x, xd, y, yd, m) ==
    IF m = 0 \/ y = 0 THEN Sign(x)
    ELSE IF x >= 0 /\ y > 0 THEN 1
    ELSE IF x <= 0 /\ y < 0 THEN 0 - 1
    ELSE IF x > 0 THEN FracCmp(x * x, xd * xd, m * y * y, yd * yd)
    ELSE FracCmp(m * y * y, yd * yd, x * x, xd * xd)

\* Numerator and denominator of the q term of select_action for child c of
\* parent p: Node::q of a visited child, first-play urgency otherwise.
SelQn(p, c) == IF c.visits = 0 THEN VScale * p.visits - p.total_score ELSE c.total_score

SelQd(p, c) == IF c.visits = 0 THEN VScale * p.visits ELSE VScale * c.visits

\* Sign of score(a) - score(b), score = q + CPUCT * policy * sqrt(N) / (1 + n)
\* with CPUCT = sqrt(2), computed exactly over the reals.
PuctCmp(p, a, b) ==
    LET x == SelQn(p, a) * SelQd(p, b) - SelQn(p, b) * SelQd(p, a)
        xd == SelQd(p, a) * SelQd(p, b)
        y == a.policy * (1 + b.visits) - b.policy * (1 + a.visits)
        yd == PolDen * (1 + a.visits) * (1 + b.visits)
    IN  SignSurd(x, xd, y, yd, 2 * p.visits)

\* Iterator::max_by keeps the later of two elements that compare equal.
RECURSIVE PuctMax(_, _, _, _, _)
PuctMax(nl, p, kids, i, best) ==
    IF i > Len(kids) THEN best
    ELSE PuctMax(nl, p, kids, i + 1,
                 IF PuctCmp(p, nl[best], nl[kids[i]]) = 1 THEN best ELSE kids[i])

\* Arena::select_action; the result is [res, err].
select_action(nl, ptr) ==
    LET p == nl[ptr]
        kids == children(p)
    IN  IF ~has_children(p)
        THEN [res |-> NONE, err |-> "assert: select_action on a node without children"]
        ELSE IF /\ Len(kids) >= 2
                /\ p.visits = 0
                /\ \E k \in 1 .. Len(kids) : nl[kids[k]].visits = 0
        THEN [res |-> NONE, err |-> "unwrap: partial_cmp of a NaN score"]
        ELSE [res |-> PuctMax(nl, p, kids, 2, kids[1]), err |-> ""]

\* FinalCmp with Node::q taken of every child, visited or not.
FinalCmp_unguarded(a, b) == Sign(a.total_score * b.visits - b.total_score * a.visits)

\* Sign of f(a) - f(b) in final_move_selection: f is -infinity for an
\* unvisited child and Node::q otherwise.
FinalCmp(a, b) ==
    IF a.visits = 0 /\ b.visits = 0 THEN 0
    ELSE IF a.visits = 0 THEN 0 - 1
    ELSE IF b.visits = 0 THEN 1
    ELSE Sign(a.total_score * b.visits - b.total_score * a.visits)

RECURSIVE FinalMax(_, _, _, _)
FinalMax(nl, kids, i, best) ==
    IF i > Len(kids) THEN best
    ELSE FinalMax(nl, kids, i + 1,
                  IF FinalCmp(nl[best], nl[kids[i]]) = 1 THEN best ELSE kids[i])

\* Arena::final_move_selection; NONE stands for Option::None.
final_move_selection(nl, ptr) ==
    LET kids == children(nl[ptr])
    IN  IF Len(kids) = 0 THEN NONE ELSE FinalMax(nl, kids, 2, kids[1])

\* Arena::reuse_tree; prev_board is << >> for Option::None and << b >> for
\* Some(b).  The result is [res, err], res = NONE for Option::None.
reuse_tree(nl, root_ptr, prev_board, board) ==
    IF prev_board = << >> \/ root_ptr = NONE THEN [res |-> NONE, err |-> ""]
    ELSE
    LET firsts == children(nl[root_ptr])
        seconds(i) == children(nl[firsts[i]])
        Match(i, j) ==
            /\ i <= Len(firsts)
            /\ nl[firsts[i]].visits > 0
            /\ j <= Len(seconds(i))
            /\ nl[seconds(i)[j]].visits > 0
            /\ make_move(make_move(prev_board[1], nl[firsts[i]].m), nl[seconds(i)[j]].m) = board
        hits == {ij \in (1 .. Cap) \X (1 .. Cap) : Match(ij[1], ij[2])}
    IN  IF hits = {} THEN [res |-> NONE, err |-> ""]
        ELSE LET ij == CHOOSE h \in hits : \A g \in hits :
                            h[1] < g[1] \/ (h[1] = g[1] /\ h[2] <= g[2])
                 second_child == seconds(ij[1])[ij[2]]
             IN  IF nl[second_child].visits > 0 /\ has_children(nl[second_child])
                 THEN [res |-> second_child, err |-> ""]
                 ELSE [res |-> NONE,
                       err |-> "assert: reuse_tree matched a node without children"]

\* Arena::print_uci panics when the root has no child to report or when
\* Node::q is asked of an unvisited child; "" when it prints.
print_uci(nl, root_ptr) ==
    LET best == final_move_selection(nl, root_ptr)
    IN  IF best = NONE THEN "unwrap: final_move_selection found no child"
        ELSE IF nl[best].visits = 0 THEN "assert: q of an unvisited node"
        ELSE ""

\* SearchType::should_stop (src/src/search.rs).
should_stop(search_type, n, avg_depth) ==
    CASE search_type.kind = "Depth" -> avg_depth > search_type.d \/ n >= search_type.n
      [] search_type.kind = "Nodes" -> n >= search_type.n
      [] OTHER -> FALSE

\* ------------------------------------------------------------------ state
VARIABLES
    node_list,        \* Arena::node_list
    root,             \* Arena::root
    lru_head,         \* Arena::lru_head
    lru_tail,         \* Arena::lru_tail
    hash_table,       \* Arena::hash_table
    depth,            \* Arena::depth
    nodes,            \* Arena::nodes
    previous_board,   \* Arena::previous_board
    board,            \* start_search: the position searched
    search_type,      \* start_search: the stop condition
    report,           \* start_search: whether info lines are printed
    total_depth,      \* start_search: sum of the playout depths
    running_avg_depth,\* start_search: last reported average depth
    halt,             \* the AtomicBool shared with the stdin reader
    pboard,           \* playout: the position of the descent
    path,             \* playout: the descent path
    ptr,              \* playout: the handle the descent stands on
    u,                \* playout: the value being backed up
    leaf_u,           \* the value the running playout's leaf was given
    pc,               \* where the searcher stands
    panic,            \* the panic that aborted the process, "" if none
    bestmove,         \* the move returned by the last finished search
    via_uci,          \* the running search was started by handle_go
    playouts,         \* playouts started since construction
    searches,         \* searches started since construction
    aligned,          \* left_align_arena has run in some playout
    reusable,         \* reuse_tree matched the arena that `go` was given
    promoted,         \* the running search promoted a grandchild to root
    network,          \* the weights loaded at startup
    done,             \* playouts the running search has completed
    uci_searches,     \* searches started by handle_go since construction
    stdin,            \* lines written to the standard input and not yet read
    sent,             \* lines written to the standard input since startup
    msg,              \* main_loop: the line handle_go left to be handled
    mpc,              \* where the thread of main_loop stands
    stdout,           \* lines written to the standard output since startup
    buffer,           \* a NodeBuffer: nodes, len and half
    handle,           \* the result of the last NodeBuffer::get_contiguous
    handed,           \* slots get_contiguous returned since the last reset
    test_arena,       \* the arena the test of left_align_arena builds
    test_before,      \* that arena as it was when left_align_arena was called
    test_pc,          \* "build" while the test builds, "aligned" afterwards
    cleared,          \* the last clear_references: its half, the slots it emptied
    hist,             \* a HistorizedBoard, the positions it went through, its state
    mv,               \* the last Move::new: its arguments, its result
    fen               \* a Board, the FEN written from it and the board read back

arena_vars == << node_list, root, lru_head, lru_tail, hash_table, depth, nodes,
                 previous_board >>
search_vars == << board, search_type, report, total_depth, running_avg_depth >>
playout_vars == << pboard, path, ptr, u, leaf_u >>
ghost_vars == << via_uci, playouts, searches, aligned, reusable, promoted,
                network, done, uci_searches >>
uci_vars == << stdin, sent, msg, mpc, stdout >>
buffer_vars == << buffer, handle, handed >>
align_vars == << test_arena, test_before, test_pc >>
unit_vars == << align_vars, cleared, hist, mv, fen >>
vars == << arena_vars, search_vars, playout_vars, ghost_vars, halt, pc, panic,
           bestmove, uci_vars, buffer_vars, unit_vars >>

\* The arena value the operators of arena.rs work on.
ArenaOf ==
    [nl |-> node_list, head |-> lru_head, tail |-> lru_tail, root |-> root,
     path |-> path, res |-> NONE, err |-> "", aligned |-> FALSE]

\* Arena::new: default nodes, the LRU list built, no root.
NewArena ==
    create_linked_list([nl |-> [i \in Slots |-> DefaultNode], head |-> NONE,
                        tail |-> NONE, root |-> NONE, path |-> << >>,
                        res |-> NONE, err |-> "", aligned |-> FALSE])

\* Positions a search may be asked for: the start position and the positions
\* two plies from it, which all have a legal move.
SearchBoards ==
    {b \in UNION {[1 .. n -> 1 .. 2] : n \in {0, 2}} : NumMoves(b) > 0 /\ b # << 2, 2 >>}

SearchTypes ==
    {[kind |-> "Nodes", n |-> n, d |-> 0] : n \in 1 .. 2}
        \cup {[kind |-> "Infinite", n |-> 0, d |-> 0]}
        \cup {[kind |-> "Depth", n |-> MaxPlayouts, d |-> 1]}

Networks == 1 .. Len(Weights)

Init ==
    /\ node_list = NewArena.nl
    /\ root = NONE
    /\ lru_head = NewArena.head
    /\ lru_tail = NewArena.tail
    /\ hash_table = EmptyTable
    /\ depth = 0
    /\ nodes = 0
    /\ previous_board = << >>
    /\ board = << >>
    /\ search_type = [kind |-> "Infinite", n |-> 0, d |-> 0]
    /\ report = FALSE
    /\ total_depth = 0
    /\ running_avg_depth = 0
    /\ halt = FALSE
    /\ pboard = << >>
    /\ path = << >>
    /\ ptr = NONE
    /\ u = 0
    /\ leaf_u = 0
    /\ pc = "idle"
    /\ panic = ""
    /\ bestmove = NONE
    /\ via_uci = FALSE
    /\ playouts = 0
    /\ searches = 0
    /\ aligned = FALSE
    /\ reusable = FALSE
    /\ promoted = FALSE
    /\ network \in Networks
    /\ done = 0
    /\ uci_searches = 0
    /\ stdout = << >>
    /\ buffer = NewBuffer(BufCap, 0)
    /\ handle = NoIndex
    /\ handed = {}
    /\ test_arena = NewArena
    /\ test_before = NewArena
    /\ test_pc = "build"
    /\ cleared = [half |-> NONE, dropped |-> {}]
    /\ hist = HistFrom
    /\ mv = [made |-> FALSE, origin |-> 0, destination |-> 0, move_type |-> "Normal",
             bits |-> 0, is_none |-> FALSE]
    /\ fen = [board |-> from_fen(FenInputs[1]), src |-> FenInputs[1], plies |-> 0,
              str |-> << >>, back |-> << >>]
    /\ stdin = << >>
    /\ sent = 0
    /\ msg = << >>
    /\ mpc = "read"

\* The process panicked: nothing runs any more.
Abort(why) ==
    /\ pc' = "aborted"
    /\ panic' = why

\* Arena::reset on the arena value A; the cache, depth and nodes are reset
\* by the callers below.
reset(A) == [create_linked_list([A EXCEPT !.nl = [i \in Slots |-> DefaultNode]])
                EXCEPT !.root = NONE]

\* Arena::start_search lines 455-456 and 462-463, on the result A1 of the
\* insert into the reset arena: the fresh root.
FreshRoot(A1) ==
    [A |-> IF A1.err # "" THEN A1 ELSE [A1 EXCEPT !.root = A1.res],
     nodes |-> 0, table |-> EmptyTable, promoted |-> FALSE, fresh |-> TRUE]

\* Arena::start_search lines 453-464 on arena value A, whose node counter is
\* n and cache is table, given the result found of reuse_tree.
RootFor(A, n, table, b, found) ==
    IF found.err # ""
    THEN [A |-> Fail(A, found.err), nodes |-> n, table |-> table,
          promoted |-> FALSE, fresh |-> FALSE]
    ELSE IF found.res = NONE \/ ~has_children(A.nl[found.res])
    THEN FreshRoot(insert(reset(A), b, NONE, NULL, PolDen))
    ELSE IF found.res # A.root
    THEN [A |-> [A EXCEPT !.nl[found.res] = make_root(A.nl[found.res]),
                          !.root = found.res],
          nodes |-> n, table |-> table, promoted |-> TRUE, fresh |-> FALSE]
    ELSE [A |-> A, nodes |-> n, table |-> table, promoted |-> FALSE,
          fresh |-> FALSE]

\* Arena::start_search lines 465-466.
RootOngoing(R) ==
    IF R.A.err # "" THEN R
    ELSE [R EXCEPT !.A.nl[R.A.root].game_state = "Ongoing"]

\* The tree set-up of Arena::start_search (lines 453-466):
\* [A, nodes, table, promoted, fresh].
SetUpRoot(A, n, table, b) ==
    RootOngoing(RootFor(A, n, table, b,
                        reuse_tree(A.nl, A.root, previous_board, b)))

\* The common part of the two ways a search starts.
BeginWith(R, b, st, rep) ==
    /\ board' = b
    /\ search_type' = st
    /\ report' = rep
    /\ total_depth' = 0
    /\ running_avg_depth' = 0
    /\ searches' = searches + 1
    /\ promoted' = R.promoted
    /\ bestmove' = NONE
    /\ done' = 0
    /\ UNCHANGED << playout_vars, halt, playouts, aligned, previous_board, network >>
    /\ IF R.A.err # ""
       THEN /\ Abort(R.A.err)
            /\ UNCHANGED << node_list, root, lru_head, lru_tail, hash_table,
                            depth, nodes >>
       ELSE /\ node_list' = R.A.nl
            /\ root' = R.A.root
            /\ lru_head' = R.A.head
            /\ lru_tail' = R.A.tail
            /\ hash_table' = R.table
            /\ nodes' = R.nodes
            /\ depth' = IF R.fresh THEN 0 ELSE depth
            /\ pc' = "loop"
            /\ panic' = ""

BeginSearch(A, n, table, b, st, rep) ==
    BeginWith(SetUpRoot(A, n, table, b), b, st, rep)

\* Arena::start_search called on the arena as the last search left it.
StartSearch(b, st, rep) ==
    /\ UNCHANGED << uci_vars, buffer_vars, unit_vars >>
    /\ pc = "idle"
    /\ searches < MaxSearches
    /\ via_uci' = FALSE
    /\ UNCHANGED uci_searches
    /\ reusable' = FALSE
    /\ BeginSearch(ArenaOf, nodes, hash_table, b, st, rep)

\* handle_go (uci.rs lines 174-178): the arena is reset, then the search
\* thread runs start_search with report = true.
HandleGo(b, st) ==
    /\ UNCHANGED << uci_vars, buffer_vars, unit_vars >>
    /\ pc = "idle"
    /\ searches < MaxSearches
    /\ via_uci' = TRUE
    /\ uci_searches' = uci_searches + 1
    /\ reusable' = LET found == reuse_tree(node_list, root, previous_board, b)
                   IN  found.err = "" /\ found.res # NONE
    /\ BeginSearch(reset(ArenaOf), 0, EmptyTable, b, st, TRUE)

\* Arena::start_search line 473 and Arena::playout lines 300-303.
PlayoutBegin ==
    /\ UNCHANGED << uci_vars, buffer_vars, unit_vars >>
    /\ pc = "loop"
    /\ playouts < MaxPlayouts
    /\ playouts' = playouts + 1
    /\ depth' = 0
    /\ pboard' = board
    /\ ptr' = root
    /\ path' = << [ptr |-> root, hash |-> hash(board), m |-> NULL] >>
    /\ pc' = "descend"
    /\ UNCHANGED << node_list, root, lru_head, lru_tail, hash_table, nodes,
                    previous_board, search_vars, u, leaf_u, halt, panic,
                    bestmove,
                    via_uci, searches, aligned, reusable, promoted, network, done,
                    uci_searches >>

\* AtLeaf with the descent going through unvisited nodes.
AtLeaf_visited_or_not == is_terminal(node_list[ptr]) \/ Len(path) = PathCap

\* The descent stands on a leaf: terminal, unvisited, or the path is full.
AtLeaf == \/ is_terminal(node_list[ptr])
          \/ node_list[ptr].visits = 0
          \/ Len(path) = PathCap

\* Arena::playout lines 306-312: the leaf's value is the cache's entry for
\* the position's hash, else Arena::evaluate: the game state's value, else
\* the network's value wdl.
DescendLeaf ==
    /\ UNCHANGED << uci_vars, buffer_vars, unit_vars >>
    /\ pc = "descend"
    /\ AtLeaf
    /\ LET A1 == move_to_front(ArenaOf, ptr)
           cached == probe(hash_table, hash(pboard))
           own == evaluate_state(node_list[ptr].game_state)
       IN  /\ IF A1.err # ""
              THEN /\ Abort(A1.err)
                   /\ UNCHANGED << node_list, lru_head, lru_tail, u, leaf_u >>
              ELSE /\ node_list' = A1.nl
                   /\ lru_head' = A1.head
                   /\ lru_tail' = A1.tail
                   /\ u' = IF cached # NONE THEN cached
                           ELSE IF own # NONE THEN own
                           ELSE wdl(network, pboard)
                   /\ leaf_u' = u'
                   /\ pc' = "backup"
                   /\ panic' = ""
    /\ UNCHANGED << root, hash_table, depth, nodes, previous_board, search_vars,
                    pboard, path, ptr, halt, bestmove, ghost_vars >>

\* Arena::playout lines 314-316 on the arena A1 left by move_to_front.
ExpandIfNeeded(A1) ==
    IF A1.err = "" /\ should_expand(A1.nl[ptr]) THEN expand(A1, ptr, pboard)
    ELSE A1

\* Arena::playout line 319 on the arena A2 left by the expansion.
Select(A2) ==
    IF A2.err # "" THEN [res |-> NONE, err |-> A2.err]
    ELSE select_action(A2.nl, ptr)

\* Arena::playout lines 319-323: the selected child sel.res becomes the
\* handle, its move is played and the path grows by one entry.
StepTo(A2, sel) ==
    IF sel.err # ""
    THEN /\ Abort(sel.err)
         /\ UNCHANGED << node_list, root, lru_head, lru_tail, depth,
                         pboard, path, ptr, aligned >>
    ELSE LET m == A2.nl[sel.res].m
             next_board == make_move(pboard, m)
         IN  /\ node_list' = A2.nl
             /\ root' = A2.root
             /\ lru_head' = A2.head
             /\ lru_tail' = A2.tail
             /\ depth' = depth + 1
             /\ ptr' = sel.res
             /\ pboard' = next_board
             /\ path' = Append(A2.path,
                               [ptr |-> sel.res, hash |-> hash(next_board),
                                m |-> m])
             /\ aligned' = (aligned \/ A2.aligned)
             /\ pc' = "descend"
             /\ panic' = ""

SelectAndStep(A2) == StepTo(A2, Select(A2))

\* Arena::playout lines 306-323: one turn of the descent loop at an inner
\* node: expand it if it has no children, select a child, play its move.
DescendStep ==
    /\ UNCHANGED << uci_vars, buffer_vars, unit_vars >>
    /\ pc = "descend"
    /\ ~AtLeaf
    /\ SelectAndStep(ExpandIfNeeded(move_to_front(ArenaOf, ptr)))
    /\ UNCHANGED << hash_table, nodes, previous_board, search_vars, u, leaf_u, halt,
                    bestmove, via_uci, playouts, searches, reusable, promoted, network,
                    done, uci_searches >>

\* The value handed to the next node up unchanged.
flip_identity(v) == v

\* Arena::playout line 330: the value seen from the other side, in halves.
flip(v) == VScale - v

\* Arena::playout lines 326-333: one turn of the backup loop, on the last
\* entry of the path that is left.
Backup ==
    /\ UNCHANGED << uci_vars, buffer_vars, unit_vars >>
    /\ pc = "backup"
    /\ path # << >>
    /\ LET entry == path[Len(path)]
           A1 == move_to_front(ArenaOf, entry.ptr)
           flipped == flip(u)
       IN  IF entry.m # node_list[entry.ptr].m
           THEN /\ Abort("assert_eq: the path entry's move is not the node's move")
                /\ UNCHANGED << node_list, lru_head, lru_tail, hash_table, u, path >>
           ELSE IF A1.err # ""
           THEN /\ Abort(A1.err)
                /\ UNCHANGED << node_list, lru_head, lru_tail, hash_table, u, path >>
           ELSE /\ node_list' = [A1.nl EXCEPT ![entry.ptr] = update_stats(@, flipped)]
                /\ lru_head' = A1.head
                /\ lru_tail' = A1.tail
                /\ hash_table' = insert_entry(hash_table, entry.hash, u)
                /\ u' = flipped
                /\ path' = SubSeq(path, 1, Len(path) - 1)
                /\ pc' = IF Len(path) = 1 THEN "check" ELSE "backup"
                /\ panic' = ""
    /\ UNCHANGED << root, depth, nodes, previous_board, search_vars, pboard, ptr,
                    leaf_u, halt, bestmove, ghost_vars >>

\* Arena::start_search lines 477-491: count the playout, report a deeper
\* average depth, and leave the loop on halt or on the stop predicate.
AfterPlayout ==
    /\ UNCHANGED << uci_vars, buffer_vars, unit_vars >>
    /\ pc = "check"
    /\ LET n == nodes + 1
           td == total_depth + depth
           avg == td \div n
           printing == avg > running_avg_depth /\ report
           printed == IF printing THEN print_uci(node_list, root) ELSE ""
       IN  /\ nodes' = n
           /\ total_depth' = td
           /\ done' = done + 1
           /\ running_avg_depth' = IF printing THEN avg ELSE running_avg_depth
           /\ IF printed # "" THEN Abort(printed)
              ELSE /\ pc' = IF halt \/ should_stop(search_type, n, avg)
                            THEN "finish" ELSE "loop"
                   /\ panic' = ""
    /\ UNCHANGED << node_list, root, lru_head, lru_tail, hash_table, depth,
                    previous_board, board, search_type, report, playout_vars,
                    halt, bestmove, via_uci, playouts, searches, aligned,
                    reusable, promoted, network, uci_searches >>

\* Arena::start_search lines 494-505: the last info line, previous_board,
\* and the move of the child that final_move_selection picks.
Finish ==
    /\ UNCHANGED << uci_vars, buffer_vars, unit_vars >>
    /\ pc = "finish"
    /\ LET printed == IF report THEN print_uci(node_list, root) ELSE ""
           best == final_move_selection(node_list, root)
       IN  IF printed # ""
           THEN /\ Abort(printed)
                /\ UNCHANGED << previous_board, bestmove >>
           ELSE IF best = NONE
           THEN /\ Abort("unwrap: final_move_selection found no child")
                /\ previous_board' = << board >>
                /\ UNCHANGED bestmove
           ELSE /\ previous_board' = << board >>
                /\ bestmove' = node_list[best].m
                /\ pc' = "idle"
                /\ panic' = ""
    /\ UNCHANGED << node_list, root, lru_head, lru_tail, hash_table, depth,
                    nodes, search_vars, playout_vars, halt, ghost_vars >>

\* The stdin reader stores true into halt on `stop` (uci.rs line 190).
Stop ==
    /\ UNCHANGED << uci_vars, buffer_vars, unit_vars >>
    /\ pc \in {"loop", "descend", "backup", "check"}
    /\ via_uci
    /\ ~halt
    /\ halt' = TRUE
    /\ UNCHANGED << arena_vars, search_vars, playout_vars, ghost_vars, pc, panic,
                    bestmove >>

\* main_loop stores false into halt on `ucinewgame` (uci.rs line 47).
Ucinewgame ==
    /\ UNCHANGED << uci_vars, buffer_vars, unit_vars >>
    /\ pc = "idle"
    /\ halt
    /\ halt' = FALSE
    /\ UNCHANGED << arena_vars, search_vars, playout_vars, ghost_vars, pc, panic,
                    bestmove >>

Next ==
    \/ \E b \in SearchBoards, st \in SearchTypes : StartSearch(b, st, FALSE)
    \/ \E b \in SearchBoards, st \in SearchTypes : HandleGo(b, st)
    \/ PlayoutBegin
    \/ DescendLeaf
    \/ DescendStep
    \/ Backup
    \/ AfterPlayout
    \/ Finish
    \/ Stop
    \/ Ucinewgame

Spec == Init /\ [][Next]_vars

\* ------------------------------------------------------------------ uci.rs
\* The front end at the grain of its threads.  The thread of main_loop reads
\* lines; `go` makes it spawn the search thread, read exactly one more line
\* and then wait for the search thread to end.  The tree is abstracted to
\* the count of playouts of Arena::start_search, which saturates at
\* MaxNodes: handle_go resets the arena first, so the root has children at
\* the end of the search exactly when a second playout has run.
GoLines == {"go infinite", "go nodes 1", "go nodes 2", "go movetime 1"}

Lines ==
    {"isready", "stop", "ucinewgame", "quit", "eval", "position startpos"}
        \cup GoLines

\* handle_go lines 153-172: the search type a `go` line asks for.
GoSearchType(line) ==
    CASE line = "go nodes 1" -> [kind |-> "Nodes", n |-> 1, d |-> 0]
      [] line = "go nodes 2" -> [kind |-> "Nodes", n |-> 2, d |-> 0]
      [] OTHER -> [kind |-> "Infinite", n |-> 0, d |-> 0]

\* Neither thread runs once the process has exited or panicked.
Alive == mpc \notin {"exited", "aborted"} /\ pc # "aborted"

\* The GUI writes a line to the standard input.
Arrive(line) ==
    /\ Alive
    /\ UNCHANGED << buffer_vars, unit_vars >>
    /\ sent < MaxLines
    /\ sent' = sent + 1
    /\ stdin' = Append(stdin, line)
    /\ UNCHANGED << arena_vars, search_vars, playout_vars, ghost_vars, halt, pc,
                    panic, bestmove, msg, mpc, stdout >>

\* main_loop lines 26-78: take the line handle_go left, or read one, and
\* dispatch on its first word.
MainRead ==
    /\ Alive
    /\ UNCHANGED << buffer_vars, unit_vars >>
    /\ mpc = "read"
    /\ msg # << >> \/ stdin # << >>
    /\ LET input == IF msg # << >> THEN msg[1] ELSE Head(stdin)
       IN  /\ stdin' = IF msg # << >> THEN stdin ELSE Tail(stdin)
           /\ msg' = << >>
           /\ halt' = IF input = "ucinewgame" THEN FALSE ELSE halt
           /\ board' = IF input = "position startpos" THEN << >> ELSE board
           /\ stdout' = IF input = "isready" THEN Append(stdout, "readyok") ELSE stdout
           /\ IF input \in GoLines
              THEN /\ mpc' = "go_read"
                   /\ pc' = "loop"
                   /\ nodes' = 0
                   /\ search_type' = GoSearchType(input)
                   /\ report' = TRUE
                   /\ bestmove' = NONE
                   /\ UNCHANGED panic
              ELSE /\ mpc' = CASE input = "quit" -> "exited"
                               [] input = "eval" -> "aborted"
                               [] OTHER -> "read"
                   /\ panic' = IF input = "eval" THEN "todo: eval" ELSE panic
                   /\ UNCHANGED << pc, nodes, search_type, report, bestmove >>
    /\ UNCHANGED << node_list, root, lru_head, lru_tail, hash_table, depth,
                    previous_board, total_depth, running_avg_depth, playout_vars,
                    ghost_vars, sent >>

\* handle_go lines 181-193: the one line read while the search runs.
GoRead ==
    /\ Alive
    /\ UNCHANGED << buffer_vars, unit_vars >>
    /\ mpc = "go_read"
    /\ stdin # << >>
    /\ LET line == Head(stdin)
       IN  /\ stdin' = Tail(stdin)
           /\ halt' = IF line = "stop" THEN TRUE ELSE halt
           /\ msg' = IF line \in {"isready", "quit", "stop"} THEN msg ELSE << line >>
           /\ mpc' = IF line = "quit" THEN "exited" ELSE "go_join"
           /\ stdout' = IF line = "isready" THEN Append(stdout, "readyok") ELSE stdout
    /\ UNCHANGED << arena_vars, search_vars, playout_vars, ghost_vars, pc, panic,
                    bestmove, sent >>

\* handle_go line 175: thread::scope returns once the search thread ended.
GoJoin ==
    /\ Alive
    /\ UNCHANGED << buffer_vars, unit_vars >>
    /\ mpc = "go_join"
    /\ pc = "idle"
    /\ mpc' = "read"
    /\ UNCHANGED << arena_vars, search_vars, playout_vars, ghost_vars, halt, pc,
                    panic, bestmove, stdin, sent, msg, stdout >>

\* Arena::start_search lines 472-477: the search thread runs one playout.
SearchPlayout ==
    /\ Alive
    /\ UNCHANGED << buffer_vars, unit_vars >>
    /\ mpc \in {"go_read", "go_join"}
    /\ pc = "loop"
    /\ nodes' = IF nodes < MaxNodes THEN nodes + 1 ELSE nodes
    /\ pc' = "check"
    /\ UNCHANGED << node_list, root, lru_head, lru_tail, hash_table, depth,
                    previous_board, search_vars, playout_vars, ghost_vars, halt,
                    panic, bestmove, uci_vars >>

\* Arena::start_search lines 486-490: leave the loop on halt or on the stop
\* predicate.
SearchCheck ==
    /\ Alive
    /\ UNCHANGED << buffer_vars, unit_vars >>
    /\ mpc \in {"go_read", "go_join"}
    /\ pc = "check"
    /\ pc' = IF halt \/ should_stop(search_type, nodes, 0) THEN "finish" ELSE "loop"
    /\ UNCHANGED << arena_vars, search_vars, playout_vars, ghost_vars, halt,
                    panic, bestmove, uci_vars >>

\* Arena::start_search lines 494-505 and handle_go line 178: the search
\* thread prints the last info line and the best move, which takes a root
\* child.
SearchEnd ==
    /\ Alive
    /\ UNCHANGED << buffer_vars, unit_vars >>
    /\ mpc \in {"go_read", "go_join"}
    /\ pc = "finish"
    /\ IF nodes < 2
       THEN /\ Abort("unwrap: final_move_selection found no child")
            /\ UNCHANGED << bestmove, stdout >>
       ELSE /\ pc' = "idle"
            /\ \E m \in LegalMoves(board) : bestmove' = m
            /\ stdout' = Append(stdout, "bestmove")
            /\ UNCHANGED panic
    /\ UNCHANGED << arena_vars, search_vars, playout_vars, ghost_vars, halt,
                    stdin, sent, msg, mpc >>

UciNext ==
    \/ \E line \in Lines : Arrive(line)
    \/ MainRead
    \/ GoRead
    \/ GoJoin
    \/ SearchPlayout
    \/ SearchCheck
    \/ SearchEnd

UciSpec == Init /\ [][UciNext]_vars

\* Both threads are scheduled: whatever step one of them can take, it
\* eventually takes.  Nothing obliges the GUI to write.
FairUciSpec ==
    /\ UciSpec
    /\ WF_vars(MainRead)
    /\ WF_vars(GoRead)
    /\ WF_vars(GoJoin)
    /\ WF_vars(SearchPlayout)
    /\ WF_vars(SearchCheck)
    /\ WF_vars(SearchEnd)

\* ------------------------------------------- node_buffer.rs as a machine
\* Everything outside the buffer stands still while the buffer is used.
BufferFrame ==
    UNCHANGED << arena_vars, search_vars, playout_vars, ghost_vars, halt, pc,
                 panic, bestmove, uci_vars, unit_vars >>

\* The buffer of a half is constructed anew.
BufferNew(half) ==
    /\ BufferFrame
    /\ buffer' = NewBuffer(BufCap, half)
    /\ handle' = NoIndex
    /\ handed' = {}

\* A caller asks the buffer for required_length contiguous slots.
GetContiguous(required_length) ==
    /\ BufferFrame
    /\ buffer' = get_contiguous(buffer, required_length).buf
    /\ handle' = get_contiguous(buffer, required_length).res
    /\ handed' = IF get_contiguous(buffer, required_length).res = NoIndex THEN handed
                 ELSE handed \cup (buffer.len .. (buffer.len + required_length - 1))

\* A caller resets the buffer.
BufferReset ==
    /\ BufferFrame
    /\ buffer' = buffer_reset(buffer)
    /\ handed' = {}
    /\ UNCHANGED handle

\* A caller writes through IndexMut: a slot's node is visited for the first
\* time, or is given children.
IndexMut(i) ==
    /\ BufferFrame
    /\ buffer.nodes[i].visits = 0
    /\ \/ buffer' = [buffer EXCEPT !.nodes[i] = update_stats(@, VScale)]
       \/ buffer' = [buffer EXCEPT !.nodes[i] = update_stats([@ EXCEPT !.num_children = 1], 0)]
    /\ UNCHANGED << handle, handed >>

BufferNext ==
    \/ \E half \in Halves : BufferNew(half)
    \/ \E required_length \in BlockLens : GetContiguous(required_length)
    \/ BufferReset
    \/ \E i \in DOMAIN buffer.nodes : IndexMut(i)

BufferSpec == Init /\ [][BufferNext]_vars

\* ----------------------------------- arena.rs: the test of left_align_arena
\* The program outside the unit under test stands still. A unit test
\* loads no network, so it is run for one of them only.
UnitFrame ==
    /\ network = 1
    /\ UNCHANGED << arena_vars, search_vars, playout_vars, ghost_vars, halt, pc,
                    panic, bestmove, uci_vars >>


\* The slots of A that hold the root or a node with a parent or children.
TestUsed(A) == {s \in Slots : s = A.root \/ is_allocated(A.nl[s])}

\* arena_test lines 589-592: the root is written into a slot of the fresh
\* arena; it is also made the arena's root and the first entry of the path.
TestRoot(r) ==
    /\ test_pc = "build"
    /\ test_arena.root = NONE
    /\ test_arena' = [test_arena EXCEPT
            !.nl[r] = overwrite(@, "Ongoing", NONE, NULL, PolDen),
            !.root = r,
            !.path = << [ptr |-> r, hash |-> 0, m |-> NULL] >>]
    /\ UNCHANGED << test_before, test_pc >>
    /\ UnitFrame
    /\ UNCHANGED << buffer_vars, cleared, hist, mv, fen >>

\* arena_test lines 594-601: a node without children gets the block of n
\* free slots at start, and each slot is overwritten with a child of it.
\* The children carry the moves start + 1 .. start + n, so that every node
\* of the arena has a move of its own.
TestExpand(p, start, n) ==
    /\ test_pc = "build"
    /\ start + n <= Cap
    /\ p = test_arena.root \/ is_allocated(test_arena.nl[p])
    /\ ~has_children(test_arena.nl[p])
    /\ \A i \in start .. (start + n - 1) : i \notin TestUsed(test_arena)
    /\ Cardinality(TestUsed(test_arena)) + n <= TestNodes
    /\ test_arena' = [test_arena EXCEPT !.nl =
            [s \in Slots |->
                IF s = p
                THEN [test_arena.nl[s] EXCEPT !.first_child = start, !.num_children = n]
                ELSE IF s \in start .. (start + n - 1)
                THEN overwrite(test_arena.nl[s], "Ongoing", p, s + 1, PolDen \div n)
                ELSE test_arena.nl[s]]]
    /\ UNCHANGED << test_before, test_pc >>
    /\ UnitFrame
    /\ UNCHANGED << buffer_vars, cleared, hist, mv, fen >>

\* The path handed to left_align_arena grows by a child of its last entry,
\* as the descent of a playout builds it.
TestDescend(c) ==
    /\ test_pc = "build"
    /\ test_arena.path # << >>
    /\ test_arena.nl[c].parent = test_arena.path[Len(test_arena.path)].ptr
    /\ is_allocated(test_arena.nl[c])
    /\ test_arena' = [test_arena EXCEPT !.path =
            Append(@, [ptr |-> c, hash |-> 0, m |-> test_arena.nl[c].m])]
    /\ UNCHANGED << test_before, test_pc >>
    /\ UnitFrame
    /\ UNCHANGED << buffer_vars, cleared, hist, mv, fen >>

\* arena_test line 609: left_align_arena on the arena that was built.
TestAlign ==
    /\ test_pc = "build"
    /\ test_arena.root # NONE
    /\ test_before' = test_arena
    /\ test_arena' = left_align_arena(test_arena)
    /\ test_pc' = "aligned"
    /\ UnitFrame
    /\ UNCHANGED << buffer_vars, cleared, hist, mv, fen >>

AlignNext ==
    \/ \E r \in Slots : TestRoot(r)
    \/ \E p \in Slots, start \in Slots, n \in 1 .. MaxBlock : TestExpand(p, start, n)
    \/ \E c \in Slots : TestDescend(c)
    \/ TestAlign

AlignSpec == Init /\ [][AlignNext]_vars

\* ------------------------------ node_buffer.rs: clear_references at work
\* The buffer of a half is constructed anew.
RefsNew(half) ==
    /\ UnitFrame
    /\ UNCHANGED << handle, handed, align_vars, hist, mv, fen >>
    /\ buffer' = NewBuffer(BufCap, half)
    /\ cleared' = [half |-> NONE, dropped |-> {}]

\* A caller visits the node of a slot for the first time (IndexMut).
RefsVisit(i) ==
    /\ UnitFrame
    /\ UNCHANGED << handle, handed, align_vars, hist, mv, fen >>
    /\ cleared.half = NONE
    /\ buffer.nodes[i].visits = 0
    /\ buffer' = [buffer EXCEPT !.nodes[i] = update_stats(@, VScale)]
    /\ UNCHANGED cleared

\* A caller gives a visited node a block of children in one of the halves
\* (Node::expand through IndexMut).
RefsExpand(i, first_child, num_children) ==
    /\ UnitFrame
    /\ UNCHANGED << handle, handed, align_vars, hist, mv, fen >>
    /\ cleared.half = NONE
    /\ buffer.nodes[i].visits > 0
    /\ buffer.nodes[i].first_child = NoIndex
    /\ buffer' = [buffer EXCEPT !.nodes[i] = node_expand(@, first_child, num_children)]
    /\ UNCHANGED cleared

\* The arena clears the buffer's references into a half.
ClearReferences(half) ==
    /\ UnitFrame
    /\ UNCHANGED << handle, handed, align_vars, hist, mv, fen >>
    /\ buffer' = clear_references(buffer, half)
    /\ cleared' = [half |-> half,
                   dropped |-> {i \in DOMAIN buffer.nodes :
                                   buffer'.nodes[i] # buffer.nodes[i]}]

RefsNext ==
    \/ \E half \in Halves : RefsNew(half)
    \/ \E i \in DOMAIN buffer.nodes : RefsVisit(i)
    \/ \E i \in DOMAIN buffer.nodes, half \in Halves, num_children \in 1 .. MaxBlock :
          RefsExpand(i, [half |-> half, idx |-> 0], num_children)
    \/ \E half \in Halves : ClearReferences(half)

RefsSpec == Init /\ [][RefsNext]_vars

\* ------------------------------- historized_board.rs: a game being played
\* A piece other than a pawn moves to an empty square: the pieces come to
\* stand in another of the arrangements, and the state is asked for.
QuietMove(to) ==
    /\ UnitFrame
    /\ UNCHANGED << buffer_vars, align_vars, cleared, mv, fen >>
    /\ hist.state = "Ongoing"
    /\ Len(hist.hashes) < HistLen
    /\ to # hist.place
    /\ hist' = [hb_make_move(hist, FALSE, to) EXCEPT
                    !.state = hb_game_state(hb_make_move(hist, FALSE, to))]

\* A pawn moves or a piece is captured.
IrreversibleMove(to) ==
    /\ UnitFrame
    /\ UNCHANGED << buffer_vars, align_vars, cleared, mv, fen >>
    /\ hist.state = "Ongoing"
    /\ hist.epoch < MaxEpoch
    /\ hist' = [hb_make_move(hist, TRUE, to) EXCEPT
                    !.state = hb_game_state(hb_make_move(hist, TRUE, to))]

HistNext ==
    \/ \E to \in 0 .. (Places - 1) : QuietMove(to)
    \/ \E to \in 0 .. (Places - 1) : IrreversibleMove(to)

HistSpec == Init /\ [][HistNext]_vars

\* ------------------------------------------- chess_move.rs: moves are made
\* A caller makes a move with Move::new and stores it as Some(move). The
\* bits go into a NonZeroU16 unchecked: with all bits zero that is
\* undefined behaviour, and the Option<Move> holding it may read as None,
\* whose representation is the zero NonZeroU16 leaves free.
MoveNew(origin, destination, move_type, is_none) ==
    /\ ~mv.made
    /\ is_none => Move_new(origin, destination, move_type) = 0
    /\ UnitFrame
    /\ UNCHANGED << buffer_vars, align_vars, cleared, hist, fen >>
    /\ mv' = [made |-> TRUE, origin |-> origin, destination |-> destination,
              move_type |-> move_type,
              bits |-> Move_new(origin, destination, move_type),
              is_none |-> is_none]

MoveNext ==
    /\ ~mv.made
    /\ \E origin \in 0 .. (NumSquares - 1), destination \in 0 .. (NumSquares - 1),
          t \in 1 .. Len(MoveTypes), is_none \in BOOLEAN :
          MoveNew(origin, destination, MoveTypes[t], is_none)

MoveSpec == Init /\ [][MoveNext]_vars

\* --------------------------------- board/fen.rs: boards written and read
\* A board is read from a FEN string.
FenParse(f) ==
    /\ UnitFrame
    /\ UNCHANGED << buffer_vars, align_vars, cleared, hist, mv >>
    /\ fen' = [board |-> from_fen(f), src |-> f, plies |-> 0,
               str |-> << >>, back |-> << >>]

\* Board::make_move of a move that the side to move may play: its piece
\* stands on the origin, a quiet move and a double push go over empty
\* squares, a capture takes a piece of the other side and an en passant
\* capture goes to the en passant square.
FenPlay(played) ==
    LET b == fen.board
        from == Move_from(played.m)
        to == Move_to(played.m)
        flag == Move_flag(played.m)
    IN  /\ UnitFrame
        /\ UNCHANGED << buffer_vars, align_vars, cleared, hist, mv >>
        /\ fen.plies < FenPlies
        /\ b.mailbox[from] = played.piece
        /\ (played.piece % 2 = 0) = (b.stm = "White")
        /\ flag \in {"Normal", "DoublePush"} => b.mailbox[to] = NONE
        /\ flag = "DoublePush" => b.mailbox[(from + to) \div 2] = NONE
        /\ flag = "Capture" =>
               b.mailbox[to] # NONE /\ b.mailbox[to] % 2 # played.piece % 2
        /\ flag = "EnPassant" => b.en_passant_square = to
        /\ fen' = [board |-> Board_make_move(b, played.m), src |-> << >>,
                   plies |-> fen.plies + 1, str |-> << >>, back |-> << >>]

\* The board is written with to_fen and the string is read with from_fen.
FenTrip ==
    /\ UnitFrame
    /\ UNCHANGED << buffer_vars, align_vars, cleared, hist, mv >>
    /\ fen.back = << >>
    /\ fen' = [fen EXCEPT !.str = to_fen(fen.board),
                          !.back = << from_fen(to_fen(fen.board)) >>]

FenNext ==
    \/ \E i \in 1 .. Len(FenInputs) : FenParse(FenInputs[i])
    \/ \E played \in FenMoves : FenPlay(played)
    \/ FenTrip

FenSpec == Init /\ [][FenNext]_vars

\* ----------------------------------------------------------------- claims
\* A slot's statistics are in range: visits >= 0, 0 <= total_score <= visits
\* (total_score is counted in halves), and an unvisited slot has no score.
StatsInRange(n) ==
    /\ n.visits >= 0
    /\ 0 <= n.total_score
    /\ n.total_score <= VScale * n.visits
    /\ n.visits = 0 => n.total_score = 0

\* C1: after every completed playout, whatever playouts, expansions,
\* evictions and compactions came before, every slot has visits >= 0,
\* 0 <= total_score <= visits, and total_score = 0 when visits = 0.
C1_StatsInRange ==
    pc \in {"check", "loop", "finish", "idle"} =>
        \A i \in Slots : StatsInRange(node_list[i])

\* A playout has just completed in an arena that was compacted, and some
\* slot carries several visits with a score strictly inside its range.
C1_Witness ==
    /\ pc = "check"
    /\ aligned
    /\ \E i \in Slots : /\ node_list[i].visits >= 2
                        /\ 0 < node_list[i].total_score
                        /\ node_list[i].total_score < VScale * node_list[i].visits

\* C2: a search on a position with a legal move that stops after exactly
\* one playout does not abort, and the move it returns is a legal move of
\* the position searched.
C2_OnePlayoutSearchReportsMove ==
    (done = 1 /\ pc \in {"finish", "idle", "aborted"} /\ NumMoves(board) > 0) =>
        /\ pc # "aborted"
        /\ pc = "idle" => bestmove \in LegalMoves(board)

\* C3: while an Infinite search runs, a `stop` line that has arrived on the
\* standard input eventually sets the halt flag, whatever lines arrived
\* before it during the same search (unless the process exits first).
C3_StopEventuallyHalts ==
    (/\ pc \in {"loop", "check"}
     /\ search_type.kind = "Infinite"
     /\ \E i \in 1 .. Len(stdin) : stdin[i] = "stop")
        ~> (halt \/ mpc = "exited")

\* The slots that hold the position b in the tree of the last search: the
\* children, reached by a move m2, of a root child reached by a move m1,
\* where b is the previously searched position advanced by m1, m2.
Grandchildren(b) ==
    IF previous_board = << >> \/ root = NONE THEN {}
    ELSE LET firsts == children(node_list[root])
         IN  {g \in Slots :
                \E i \in 1 .. Len(firsts) :
                    LET seconds == children(node_list[firsts[i]])
                    IN  \E j \in 1 .. Len(seconds) :
                            /\ seconds[j] = g
                            /\ make_move(make_move(previous_board[1],
                                                   node_list[firsts[i]].m),
                                         node_list[g].m) = b}

\* C4: when start_search is called on the previously searched position
\* advanced by two moves, it promotes the grandchild reached by those moves
\* exactly when that grandchild has visits > 0, and it does not abort.
C4_PromotesExactlyVisitedGrandchild ==
    [][(pc = "idle" /\ pc' # "idle" /\ ~via_uci' /\ Grandchildren(board') # {}) =>
            /\ pc' # "aborted"
            /\ promoted' <=> \E g \in Grandchildren(board') : node_list[g].visits > 0]_vars

\* C5: when both searches were started by `go` and the second `go` is on a
\* position whose grandchild the first search visited, the root of the
\* second search has visits > 0 and children when its first playout starts.
C5_SecondGoStartsFromReusedTree ==
    (/\ via_uci
     /\ uci_searches = 2
     /\ searches = 2
     /\ reusable
     /\ done = 0
     /\ pc = "descend"
     /\ Len(path) = 1) =>
        /\ node_list[root].visits > 0
        /\ has_children(node_list[root])

\* The panics of Arena::expand when no chunk can be had.
ExpansionPanics ==
    {"unwrap: left_align_arena found no free slot",
     "unwrap: left_align_arena found no allocated slot",
     "unwrap: no contiguous chunk after left_align_arena",
     "unwrap: prev of the tail"}

\* C6: an expansion that cannot obtain a chunk, even after reclaiming
\* space, does not abort the process.
C6_FailedExpansionDoesNotAbort == panic \notin ExpansionPanics

\* C7: when the backup starts, every entry of the descent path still names
\* a slot that holds the move recorded during the descent, and every entry
\* but the root's is still a child of the entry before it.
C7_PathSurvivesTheDescent ==
    pc = "backup" =>
        \A k \in 1 .. Len(path) :
            /\ node_list[path[k].ptr].m = path[k].m
            /\ k > 1 => /\ node_list[path[k].ptr].parent = path[k - 1].ptr
                        /\ \E c \in 1 .. Len(children(node_list[path[k - 1].ptr])) :
                                children(node_list[path[k - 1].ptr])[c] = path[k].ptr

\* C8: at the start of every search and after every playout the root
\* handle is slot 0.
C8_RootIsSlotZero == (pc \in {"loop", "check"} /\ root # NONE) => root = 0

\* C9: in every reachable state a node whose game_state is not Ongoing has
\* no children: first_child is null and num_children is 0.
C9_TerminalHasNoChildren ==
    \A i \in Slots :
        node_list[i].game_state # "Ongoing" =>
            node_list[i].first_child = NONE /\ node_list[i].num_children = 0

\* The descent has stopped, for at least the second time, on a drawn
\* position that still has legal moves, and nothing is backed up yet.
C9_Witness ==
    /\ pc = "backup"
    /\ path[Len(path)].ptr = ptr
    /\ is_terminal(node_list[ptr])
    /\ node_list[ptr].visits >= 1
    /\ NumMoves(pboard) > 0

\* q(a) >= q(b) for two visited nodes.
QAtLeast(a, b) == a.total_score * b.visits >= b.total_score * a.visits

\* C10: when a search has stopped and the root has a visited child, the
\* move returned is the move of a visited root child whose Q is at least
\* the Q of every other visited root child, and Node::q has not been asked
\* of an unvisited node.
C10_BestMoveIsBestVisitedChild ==
    /\ panic # "assert: q of an unvisited node"
    /\ LET kids == children(node_list[root])
           Visited == {k \in 1 .. Len(kids) : node_list[kids[k]].visits > 0}
       IN  (pc = "idle" /\ searches > 0 /\ Visited # {}) =>
                \E k \in Visited :
                    /\ node_list[kids[k]].m = bestmove
                    /\ \A j \in Visited :
                            QAtLeast(node_list[kids[k]], node_list[kids[j]])

\* A search has returned the move of the root's second child, which has a
\* strictly larger Q than the visited first child.
C10_Witness ==
    /\ pc = "idle"
    /\ searches > 0
    /\ LET kids == children(node_list[root])
       IN  /\ Len(kids) = 2
           /\ node_list[kids[1]].visits > 0
           /\ node_list[kids[2]].visits > 0
           /\ ~QAtLeast(node_list[kids[1]], node_list[kids[2]])
           /\ bestmove = node_list[kids[2]].m


\* C11: when the descent steps from a parent to the child select_action
\* chose, every child that stands before the chosen one in the parent's
\* block has a strictly smaller PUCT score: of the children that share the
\* maximal score, the first one is chosen.
C11_TieGoesToFirstChild ==
    [][(pc = "descend" /\ pc' = "descend" /\ Len(path') = Len(path) + 1)
        => \A c \in node_list'[ptr].first_child .. (ptr' - 1) :
              PuctCmp(node_list'[ptr], node_list'[c], node_list'[ptr']) < 0]_vars

\* C12: when the descent has ended at a terminal leaf and nothing is backed
\* up yet, the value to back up is GameState::evaluate of the leaf (Won 1,
\* Draw 1/2, Lost 0, counted in halves), whatever the cache holds for the
\* leaf's hash.
C12_TerminalLeafValueIsItsGameState ==
    (pc = "backup" /\ Len(path) = depth + 1 /\ is_terminal(node_list[ptr]))
        => u = evaluate_state(node_list[ptr].game_state)

\* A turn of the backup loop has updated the last entry of the path.
BackupStep == pc = "backup" /\ Len(path') = Len(path) - 1

\* How many steps above the leaf the last entry of the path stands.
StepsAboveLeaf == depth + 1 - Len(path)

\* C13: a turn of the backup loop raises the visits of the path's node by
\* exactly one and its total_score by 1 - u when the node stands an even
\* number of steps above the leaf and by u when odd, u being the leaf's
\* value; the cache gets, under the node's hash, the value before the
\* node's flip; no other node's statistics change.
C13_BackupAlternatesTheLeafValue ==
    [][BackupStep
        => LET e == path[Len(path)]
               even == StepsAboveLeaf % 2 = 0
           IN  /\ node_list'[e.ptr].visits = node_list[e.ptr].visits + 1
               /\ node_list'[e.ptr].total_score = node_list[e.ptr].total_score
                      + (IF even THEN VScale - leaf_u ELSE leaf_u)
               /\ hash_table'[index(e.hash, TableLen)].val
                      = (IF even THEN leaf_u ELSE VScale - leaf_u)
               /\ \A s \in Slots \ {e.ptr} :
                      /\ node_list'[s].visits = node_list[s].visits
                      /\ node_list'[s].total_score = node_list[s].total_score]_vars

\* A playout of depth two or more has backed up its leaf, value 0, and the
\* leaf's parent, which got the value unflipped.
C13_Witness ==
    /\ pc = "backup"
    /\ depth >= 2
    /\ Len(path) = depth - 1
    /\ leaf_u = 0
    /\ u = 0
    /\ node_list[ptr].visits = 1
    /\ node_list[ptr].total_score = VScale

\* The first turn of the backup loop has updated the leaf of the playout.
LeafBackupStep == BackupStep /\ Len(path) = depth + 1

\* C14 as stated: a playout that ends at leaf n with value u, relative to
\* n's side to move, adds u to n's total_score, so that total_score / visits
\* of n is expressed from n's own side to move.
C14_LeafScoredFromItsOwnSide ==
    [][LeafBackupStep
        => node_list'[path[Len(path)].ptr].total_score
               = node_list[path[Len(path)].ptr].total_score + leaf_u]_vars

\* C14 amended: a playout that ends at leaf n with value u, relative to n's
\* side to move, adds 1 - u to n's total_score: total_score / visits of n
\* is expressed from the side that moved into n.
C14_LeafScoredFromTheMoversSide ==
    [][LeafBackupStep
        => node_list'[path[Len(path)].ptr].total_score
               = node_list[path[Len(path)].ptr].total_score + (VScale - leaf_u)]_vars

\* A playout has ended at a leaf whose side to move is checkmated and has
\* backed the leaf up with the value 0: the leaf's Q is 1.
C14_Witness ==
    /\ pc = "backup"
    /\ depth >= 1
    /\ Len(path) = depth
    /\ node_list[ptr].game_state = "Lost"
    /\ node_list[ptr].m = pboard[Len(pboard)]
    /\ leaf_u = 0
    /\ node_list[ptr].visits >= 1
    /\ node_list[ptr].total_score = VScale * node_list[ptr].visits

\* The stop predicate as the specification words it.
StopAsSpecified(st, n, avg_depth) ==
    CASE st.kind = "Depth" -> avg_depth >= st.d \/ n >= st.n
      [] st.kind = "Nodes" -> n >= st.n
      [] OTHER -> FALSE

\* C15: after a playout that no halt request ends, the search leaves its
\* loop exactly when the stop predicate as specified holds of the nodes
\* counted and the average depth: for Depth, average depth >= d or nodes
\* >= N; for Nodes, nodes >= n; never for Infinite.
C15_StopsExactlyAsSpecified ==
    [][(pc = "check" /\ pc' \in {"loop", "finish"} /\ ~halt)
        => ((pc' = "finish")
              <=> StopAsSpecified(search_type, nodes', total_depth' \div nodes'))]_vars

\* C16: once main_loop is about to read `go movetime 1`, the search that
\* line starts ends by itself: the best move is printed (or the process
\* has ended), whether or not a `stop` is ever written.
C16_MovetimeSearchEnds ==
    (mpc = "read" /\ msg = << >> /\ stdin # << >> /\ Head(stdin) = "go movetime 1")
        ~> (\/ ~Alive
            \/ mpc \in {"go_read", "go_join"} /\ pc = "idle")

\* C17: no line kills the process: main_loop never panics.
C17_NoLineAbortsTheMainLoop == mpc # "aborted"

\* C18: while the search runs and handle_go waits for its line, whatever is
\* added to the standard output is the searcher's: the reader prints
\* nothing for the line it reads.
C18_ReaderIsSilentDuringSearch ==
    [][(mpc = "go_read" /\ pc \in {"loop", "check", "finish"})
        => stdout' \in {stdout, Append(stdout, "bestmove")}]_vars

Hashes == 0 .. (HashSpace - 1)

Values == 0 .. VScale

\* The hashes that map to the slot of h.
SlotMates == [h \in Hashes |-> {g \in Hashes : index(g, TableLen) = index(h, TableLen)}]

\* C19: whatever the cache holds, insert(h, v) makes probe(h) return v,
\* replaces the entry of h's slot, so that a hash of another key that maps
\* to the slot misses, and changes no other slot.
C19_InsertOverwritesOneSlot ==
    \A h \in Hashes, v \in Values :
        LET t == insert_entry(hash_table, h, v)
        IN  /\ probe(t, h) = v
            /\ \A i \in DOMAIN hash_table :
                   i # index(h, TableLen) => t[i] = hash_table[i]
            /\ \A g \in SlotMates[h] :
                   g % KeySpace # h % KeySpace => probe(t, g) = NONE

\* The backup has inserted the leaf's value and then the value of the
\* leaf's parent, whose hash maps to the same slot with another key: the
\* slot holds the parent's entry and the leaf's hash misses.
C19_Witness ==
    /\ pc = "backup"
    /\ depth >= 2
    /\ Len(path) = depth - 1
    /\ Len(pboard) >= 1
    /\ LET leaf == hash(pboard)
           above == hash(SubSeq(pboard, 1, Len(pboard) - 1))
       IN  /\ index(leaf, TableLen) = index(above, TableLen)
           /\ leaf % KeySpace # above % KeySpace
           /\ probe(hash_table, above) = VScale - u
           /\ probe(hash_table, leaf) = NONE

\* What the claim says a call get_contiguous(n) does to the buffer.
GetContiguousAsSpecified(n) ==
    IF remaining(buffer) < n
    THEN /\ handle' = NoIndex
         /\ buffer' = buffer
    ELSE /\ handle' = [half |-> buffer.half, idx |-> buffer.len]
         /\ buffer'.len = buffer.len + n
         /\ buffer'.half = buffer.half
         /\ \A i \in DOMAIN buffer.nodes :
                IF i >= buffer.len /\ i < buffer.len + n
                THEN /\ i \notin handed
                     /\ buffer'.nodes[i].game_state = "Ongoing"
                     /\ buffer'.nodes[i].m = NULL
                     /\ buffer'.nodes[i].policy = 0
                     /\ buffer'.nodes[i].visits = 0
                     /\ buffer'.nodes[i].total_score = 0
                     /\ buffer'.nodes[i].first_child = NoIndex
                     /\ buffer'.nodes[i].num_children = 0
                ELSE buffer'.nodes[i] = buffer.nodes[i]

\* C20: get_contiguous(n) returns None exactly when fewer than n slots
\* remain and then changes nothing; otherwise it returns the handle of slot
\* len in the buffer's half, advances len by n, and the n slots are cleared
\* and were in no block returned since the last reset.
C20_GetContiguousHandsOutFreshSlots ==
    [][\A n \in BlockLens : GetContiguous(n) => GetContiguousAsSpecified(n)]_vars

\* A second block was handed out and filled the buffer, after which a
\* request for one more slot was refused.
C20_Witness ==
    /\ buffer.len = BufCap
    /\ handed = 0 .. (BufCap - 1)
    /\ handle = NoIndex

\* C30: while no playout has run since construction, so that no insert has
\* been made into the cache, a probe of any hash misses, whatever the
\* hash's key is.
C30_FreshCacheMisses ==
    playouts = 0 => \A h \in Hashes : probe(hash_table, h) = NONE

\* C26: the halt flag is false whenever main_loop starts a search for a
\* `go` line.
C26_HaltIsClearWhenSearchBegins ==
    [][(mpc = "read" /\ mpc' = "go_read") => ~halt']_vars

\* C27: a search of type Nodes(n) that no halt request ends leaves its loop
\* after exactly n playouts of its own, on a fresh tree and on a reused one.
C27_NodesSearchRunsNPlayouts ==
    [][(pc = "check" /\ pc' = "finish" /\ ~halt /\ search_type.kind = "Nodes")
        => done' = search_type.n]_vars

\* The sum of the visits of the slots first .. first + k - 1.
RECURSIVE BlockVisits(_, _, _)
BlockVisits(nl, first, k) ==
    IF k = 0 THEN 0
    ELSE nl[first + k - 1].visits + BlockVisits(nl, first, k - 1)

RECURSIVE SubtreeOutvisits(_, _, _)
SubtreeOutvisits(nl, s, fuel) ==
    \/ fuel = 0
    \/ ~has_children(nl[s])
    \/ /\ nl[s].visits >= 1 + BlockVisits(nl, nl[s].first_child, nl[s].num_children)
       /\ \A c \in nl[s].first_child .. (nl[s].first_child + nl[s].num_children - 1) :
              SubtreeOutvisits(nl, c, fuel - 1)

RECURSIVE Chain(_, _, _)
Chain(nl, s, fuel) ==
    IF s = NONE \/ fuel = 0 THEN << >>
    ELSE << s >> \o Chain(nl, nl[s].next, fuel - 1)

\* C29: the LRU list is well formed: the walk from lru_head along the next
\* links meets every slot exactly once and ends at lru_tail, the head has
\* no predecessor, the tail no successor, and prev is the inverse of next
\* on every adjacent pair.
C29_LruListIsWellFormed ==
    LET walk == Chain(node_list, lru_head, Cap + 1)
    IN  /\ Len(walk) = Cap
        /\ {walk[i] : i \in 1 .. Len(walk)} = Slots
        /\ walk[Len(walk)] = lru_tail
        /\ node_list[lru_head].prev = NONE
        /\ node_list[lru_tail].next = NONE
        /\ \A i \in 1 .. (Len(walk) - 1) : node_list[walk[i + 1]].prev = walk[i]

\* After a compaction, with children written over evicted slots, the list
\* is in another order than create_linked_list left it: neither end is
\* where it was.
C29_Witness ==
    /\ aligned
    /\ pc = "loop"
    /\ lru_head # Cap - 1
    /\ lru_tail # 0
    /\ node_list[lru_head].visits >= 1

\* The arena on which Arena::expand calls left_align_arena in the descent
\* step of the current state: the node at ptr moved to the front, no chunk
\* found for its children, capacity / 10 tail nodes unallocated.
AlignInput ==
    LET A1 == get_contiguous_chunk(move_to_front(ArenaOf, ptr), NumMoves(pboard))
    IN  UnallocLoop(A1, A1.tail, Cap \div 10)

\* The descent step of the current state reaches left_align_arena.
CompactionDue ==
    /\ pc = "descend"
    /\ ~AtLeaf
    /\ should_expand(node_list[ptr])
    /\ ~has_children(node_list[ptr])
    /\ AlignInput.err = ""
    /\ AlignInput.res = NONE

\* The slot an allocated node of nl has after compaction: the number of
\* allocated slots below it.
NewSlot(nl, a) == Cardinality({s \in Slots : s < a /\ is_allocated(nl[s])})

SameNode(x, y) ==
    /\ x.m = y.m
    /\ x.policy = y.policy
    /\ x.visits = y.visits
    /\ x.total_score = y.total_score
    /\ x.game_state = y.game_state

\* Handle h2 of arena C denotes the node that handle h denoted in arena B.
Denotes(B, C, h, h2) ==
    /\ h2 # NONE
    /\ SameNode(C.nl[h2], B.nl[h])
    /\ is_allocated(B.nl[h]) => h2 = NewSlot(B.nl, h)

AlignPreserves(B, C) ==
    LET allocated == {s \in Slots : is_allocated(B.nl[s])}
    IN  /\ {s \in Slots : is_allocated(C.nl[s])} = 0 .. (Cardinality(allocated) - 1)
        /\ \A a \in allocated : SameNode(C.nl[NewSlot(B.nl, a)], B.nl[a])
        /\ Denotes(B, C, B.root, C.root)
        /\ Len(C.path) = Len(B.path)
        /\ \A j \in 1 .. Len(B.path) : Denotes(B, C, B.path[j].ptr, C.path[j].ptr)
        /\ \A a \in allocated :
               LET n == B.nl[a]
                   n2 == C.nl[NewSlot(B.nl, a)]
               IN  /\ IF n.parent = NONE THEN n2.parent = NONE
                      ELSE Denotes(B, C, n.parent, n2.parent)
                   /\ n2.num_children = n.num_children
                   /\ IF n.first_child = NONE THEN n2.first_child = NONE
                      ELSE /\ n2.first_child # NONE
                           /\ \A k \in 0 .. (n.num_children - 1) :
                                  /\ n2.first_child + k \in Slots
                                  /\ Denotes(B, C, n.first_child + k, n2.first_child + k)

\* C24: whenever left_align_arena returns, the allocated nodes are a
\* contiguous prefix of the arena in their old order, and the root handle,
\* every path entry, every parent link and every child block denote the
\* nodes they denoted before the call, each block still contiguous.
C24_LeftAlignKeepsTheTree ==
    (test_pc = "aligned" /\ test_arena.err = "")
        => AlignPreserves(test_before, test_arena)

\* A compaction that moved the root, a later node of the path and a node
\* together with its block of two children.
C24_Witness ==
    /\ test_pc = "aligned"
    /\ test_arena.err = ""
    /\ test_arena.root # test_before.root
    /\ \E j \in 2 .. Len(test_before.path) :
           test_arena.path[j].ptr # test_before.path[j].ptr
    /\ \E a \in Slots :
           /\ a # test_before.root
           /\ test_before.nl[a].num_children = 2
           /\ NewSlot(test_before.nl, a) # a
           /\ NewSlot(test_before.nl, test_before.nl[a].first_child)
                  # test_before.nl[a].first_child

\* The same for the compactions a search runs into: whenever a descent
\* step compacts the arena and left_align_arena returns.
C24_SearchCompactionKeepsTheTree ==
    (CompactionDue /\ left_align_arena(AlignInput).err = "")
        => AlignPreserves(AlignInput, left_align_arena(AlignInput))

\* What the claim says clear_references(half) does to the buffer B.
ClearReferencesAsSpecified(B, half, C) ==
    /\ C.len = B.len
    /\ C.half = B.half
    /\ DOMAIN C.nodes = DOMAIN B.nodes
    /\ \A i \in DOMAIN B.nodes :
           LET n == B.nodes[i]
               c == C.nodes[i]
           IN  /\ c.first_child = NoIndex \/ c.first_child.half # half
               /\ IF n.first_child # NoIndex /\ n.first_child.half = half
                  THEN c.first_child = NoIndex /\ c.num_children = 0
                  ELSE c.first_child = n.first_child /\ c.num_children = n.num_children
               /\ c.m = n.m
               /\ c.policy = n.policy
               /\ c.visits = n.visits
               /\ c.total_score = n.total_score
               /\ c.game_state = n.game_state

\* C25: clear_references(h) leaves no node with a first_child in half h,
\* those nodes without children, every other node and field and len as
\* they were; a second call changes nothing more.
C25_ClearReferencesDropsOneHalf ==
    [][\A half \in Halves :
          ClearReferences(half)
              => /\ ClearReferencesAsSpecified(buffer, half, buffer')
                 /\ clear_references(buffer', half) = buffer']_vars

\* A buffer right after clear_references: it emptied a visited node, and
\* another node still has its block in the other half.
C25_Witness ==
    /\ cleared.dropped # {}
    /\ \A i \in cleared.dropped :
           /\ buffer.nodes[i].first_child = NoIndex
           /\ buffer.nodes[i].num_children = 0
           /\ buffer.nodes[i].visits = 1
    /\ \E j \in DOMAIN buffer.nodes :
           /\ buffer.nodes[j].first_child # NoIndex
           /\ buffer.nodes[j].first_child.half # cleared.half
           /\ buffer.nodes[j].num_children = MaxBlock
    /\ \A k \in DOMAIN buffer.nodes :
           buffer.nodes[k].first_child = NoIndex
               \/ buffer.nodes[k].first_child.half # cleared.half

\* C23: game_state reports Draw for a position with legal moves and a
\* half-move clock below 100 only if the hash of the position also occurs
\* at an earlier entry of the recorded hashes, and reports Ongoing for a
\* position the game never went through before.
C23_DrawOnlyOnRepetition ==
    (hist.state = "Draw" /\ hist.half_moves < HalfMoveLimit)
        => /\ \E i \in 1 .. (Len(hist.hashes) - 1) : hist.hashes[i] = hb_hash(hist)
           /\ hb_hash(hist) \in hist.seen

\* The promotion piece, castling and en passant a move type stands for.
PromotionOf(t) ==
    CASE t \in {"QueenPromotion", "QueenCapturePromotion"} -> "Queen"
      [] t \in {"RookPromotion", "RookCapturePromotion"} -> "Rook"
      [] t \in {"BishopPromotion", "BishopCapturePromotion"} -> "Bishop"
      [] t \in {"KnightPromotion", "KnightCapturePromotion"} -> "Knight"
      [] OTHER -> "None"

\* from, to, flag, promotion, is_castle and is_en_passant of the move made
\* give back the arguments of Move::new.
MoveReadsBack ==
    /\ mv.bits \in 0 .. (2 ^ 16 - 1)
    /\ Move_from(mv.bits) = mv.origin
    /\ Move_to(mv.bits) = mv.destination
    /\ Move_flag(mv.bits) = mv.move_type
    /\ Move_promotion(mv.bits) = PromotionOf(mv.move_type)
    /\ Move_is_castle(mv.bits) = (mv.move_type \in {"KingCastle", "QueenCastle"})
    /\ Move_is_en_passant(mv.bits) = (mv.move_type = "EnPassant")

\* C22: Move::new(o, d, t) is a 16-bit value whose from, to and flag are
\* o, d and t, whose promotion, is_castle and is_en_passant agree with t,
\* and which is not the null move.
C22_MoveRoundTripAndNotNull ==
    mv.made => /\ MoveReadsBack
               /\ mv.bits # NULL
               /\ ~mv.is_none

\* The first part alone: every move reads back its arguments.
C22_MoveRoundTrip == mv.made => MoveReadsBack


====
